---- MODULE Spec2Model ----
(***************************************************************************)
(* A model of the CDS-spread pipeline of gaixen/CredTech:                  *)
(*   feature_engineering/AcademicFeatureEngineer.py  (feature engineer)    *)
(*   feature_engineering/academic_features.py        (data preparation)    *)
(*   data_ingestion/structured_data/api.py           (standalone DTD)      *)
(*   model_training/cds_prediction_model.py, cds_models.py (model fitter)  *)
(*                                                                         *)
(* A float is a pair <<n, d>>: d > 0 is the rational n/d in lowest terms,  *)
(* d = 0 is one of the IEEE specials: <<0,0>> NaN (pandas' missing value), *)
(* <<1,0>> +inf, <<-1,0>> -inf.  Arithmetic follows IEEE-754 on the        *)
(* specials and is exact on the rationals; signed zeros are not            *)
(* distinguished (x/0 has the sign of x).  The natural logarithm is        *)
(* computed in fixed point (LnScale) and is therefore rounded, as the      *)
(* float one is.                                                           *)
(*                                                                         *)
(* A table (pandas DataFrame) is [idx |-> row labels, col |-> column name  *)
(* :> sequence of cell values]; a Series is [idx |-> ..., val |-> ...].    *)
(* Entities (symbol) and dates are natural numbers in their sort order.    *)
(***************************************************************************)
EXTENDS Integers, Sequences, FiniteSets, TLC

VARIABLES
    op,       \* the entry point the caller invoked
    pc,       \* position inside that entry point
    df,       \* the table object the caller passed in (mutated in place or not)
    df0,      \* snapshot of the caller's table at the time of the call
    cur,      \* the entry point's working table (df_prep, df_features, ...)
    target,   \* the target Series computed by the entry point
    err,      \* the exception that left the entry point, or "none"
    run,      \* prepare_model_features: which of the two invocations is running
    first,    \* prepare_model_features: what the first invocation returned
    scal,     \* scalar inputs/outputs of the standalone calculators
    winsorize_level,  \* AcademicFeatureEngineer.winsorize_level
    rebound,  \* prepare_data_for_engineering: its local name df was rebound to a new table
    fit       \* CDSPredictionModel: its fields and the fit request

vars == <<op, pc, df, df0, cur, target, err, run, first, scal, winsorize_level, rebound, fit>>

----------------------------------------------------------------------------
(* Floats *)

NaN  == <<0, 0>>
PInf == <<1, 0>>
NInf == <<-1, 0>>
\* Python's None where a float is expected
None == <<2, 0>>
IsMissing(v) == v = NaN \/ v = None

Abs(x) == IF x < 0 THEN -x ELSE x
Sgn(x) == IF x < 0 THEN -1 ELSE IF x > 0 THEN 1 ELSE 0

RECURSIVE GCD(_, _)
GCD(a, b) == IF b = 0 THEN a ELSE GCD(b, a % b)

Norm(n, d) == LET g == GCD(Abs(n), d) IN <<n \div g, d \div g>>
Num(k) == <<k, 1>>
Rat(n, d) == Norm(n, d)

IsNaN(v) == v = NaN
IsInf(v) == v[2] = 0 /\ v[1] # 0
IsFin(v) == v[2] > 0
IsZero(v) == v[2] > 0 /\ v[1] = 0
NotNa(v) == v # NaN

Neg(a) == <<-a[1], a[2]>>

Add(a, b) ==
    IF IsNaN(a) \/ IsNaN(b) THEN NaN
    ELSE IF IsInf(a) /\ IsInf(b) THEN (IF a = b THEN a ELSE NaN)
    ELSE IF IsInf(a) THEN a
    ELSE IF IsInf(b) THEN b
    ELSE LET g == GCD(a[2], b[2])
         IN Norm(a[1] * (b[2] \div g) + b[1] * (a[2] \div g), (a[2] \div g) * b[2])

Sub(a, b) == Add(a, Neg(b))

Mul(a, b) ==
    IF IsNaN(a) \/ IsNaN(b) THEN NaN
    ELSE IF IsInf(a) \/ IsInf(b)
         THEN (IF a[1] = 0 \/ b[1] = 0 THEN NaN ELSE <<Sgn(a[1]) * Sgn(b[1]), 0>>)
    ELSE LET g1 == GCD(Abs(a[1]), b[2])
             g2 == GCD(Abs(b[1]), a[2])
         IN IF a[1] = 0 \/ b[1] = 0 THEN <<0, 1>>
            ELSE <<(a[1] \div g1) * (b[1] \div g2), (a[2] \div g2) * (b[2] \div g1)>>

Inv(b) ==
    IF IsNaN(b) THEN NaN
    ELSE IF IsInf(b) THEN <<0, 1>>
    ELSE IF b[1] = 0 THEN PInf
    ELSE IF b[1] < 0 THEN <<-b[2], -b[1]>> ELSE <<b[2], b[1]>>

\* IEEE division: x/0 is +-inf for x # 0, 0/0 and inf/inf are NaN.
Div(a, b) ==
    IF IsNaN(a) \/ IsNaN(b) THEN NaN
    ELSE IF IsInf(a) /\ IsInf(b) THEN NaN
    ELSE IF IsZero(b) THEN (IF a[1] = 0 THEN NaN ELSE <<Sgn(a[1]), 0>>)
    ELSE Mul(a, Inv(b))

\* a < b on floats: every comparison with NaN is false.
Lt(a, b) ==
    IF IsNaN(a) \/ IsNaN(b) THEN FALSE
    ELSE IF IsInf(a) \/ IsInf(b)
         THEN (IF IsInf(a) /\ IsInf(b) THEN a[1] < b[1]
               ELSE IF IsInf(a) THEN a[1] < 0 ELSE b[1] > 0)
    ELSE LET g == GCD(a[2], b[2]) IN a[1] * (b[2] \div g) < b[1] * (a[2] \div g)
Le(a, b) == Lt(a, b) \/ (NotNa(a) /\ a = b)
Gt(a, b) == Lt(b, a)

----------------------------------------------------------------------------
(* Natural logarithm, in fixed point.  ln(n/d) = k*ln 2 + 2*atanh(z) with   *)
(* n/d = 2^k * m, 1 <= m < 2, z = (m-1)/(m+1) <= 1/3.                       *)

LnScale == 1000 * 1000
Ln2Fix == 693 * 1000 + 147   \* ln 2, in units of 1/LnScale
LnTerms == 8

\* a*b/LnScale for 0 <= a, b <= LnScale, without leaving 32 bits
MulFix(a, b) ==
    LET ah == a \div 1000  al == a % 1000
        bh == b \div 1000  bl == b % 1000
    IN ah * bh + (ah * bl + al * bh + (al * bl) \div 1000) \div 1000

\* a*LnScale/b for 0 <= a < b < 2*10^6, by long division in base 1000
DivFix(a, b) ==
    LET r1 == (a % b) * 1000
        r2 == (r1 % b) * 1000
    IN (a \div b) * LnScale + (r1 \div b) * 1000 + (r2 \div b)

RECURSIVE LnReduce(_, _, _)
LnReduce(n, d, k) ==
    IF n >= 2 * d THEN LnReduce(n, 2 * d, k + 1)
    ELSE IF n < d THEN LnReduce(2 * n, d, k - 1)
    ELSE <<n, d, k>>

RECURSIVE AtanhSum(_, _, _)
AtanhSum(zpow, z2, j) ==
    IF j > LnTerms THEN 0
    ELSE zpow \div (2 * j + 1) + AtanhSum(MulFix(zpow, z2), z2, j + 1)

LnFix(n, d) ==
    LET r == LnReduce(n, d, 0)
        z == DivFix(r[1] - r[2], r[1] + r[2])
    IN r[3] * Ln2Fix + 2 * AtanhSum(z, MulFix(z, z), 0)

\* np.log: NaN for NaN and for negatives, -inf at 0, +inf at +inf
Ln(v) ==
    IF IsNaN(v) THEN NaN
    ELSE IF IsInf(v) THEN (IF v[1] > 0 THEN PInf ELSE NaN)
    ELSE IF v[1] < 0 THEN NaN
    ELSE IF v[1] = 0 THEN NInf
    ELSE Norm(LnFix(v[1], v[2]), LnScale)

----------------------------------------------------------------------------
(* Tables and Series *)

Range(f) == {f[i] : i \in DOMAIN f}
Cols(t) == DOMAIN t.col
Has(t, c) == c \in DOMAIN t.col
NRows(t) == Len(t.idx)
Table(idx, col) == [idx |-> idx, col |-> col]
\* df[c] = vec  (vec already aligned with the frame's rows)
Assign(t, c, vec) == [idx |-> t.idx, col |-> (c :> vec) @@ t.col]
\* df[c] = scalar
AssignScalar(t, c, v) == Assign(t, c, [i \in 1..NRows(t) |-> v])
RangeIndex(n) == [i \in 1..n |-> i - 1]

VAdd(a, b) == [i \in DOMAIN a |-> Add(a[i], b[i])]
VSub(a, b) == [i \in DOMAIN a |-> Sub(a[i], b[i])]
VMul(a, b) == [i \in DOMAIN a |-> Mul(a[i], b[i])]
VDiv(a, b) == [i \in DOMAIN a |-> Div(a[i], b[i])]
VScale(a, k) == [i \in DOMAIN a |-> Mul(a[i], k)]
VLn(a) == [i \in DOMAIN a |-> Ln(a[i])]
\* Series.replace(0, np.nan)
ReplaceZero(a) == [i \in DOMAIN a |-> IF IsZero(a[i]) THEN NaN ELSE a[i]]
\* Series.fillna(v)
FillNa(a, v) == [i \in DOMAIN a |-> IF IsNaN(a[i]) THEN v ELSE a[i]]
\* len(df[c].unique())
NUnique(a) == Cardinality(Range(a))

\* the previous row of the same group in the frame's current row order (0: none)
GroupPrev(sym, i) ==
    LET before == {j \in 1..(i - 1) : sym[j] = sym[i]}
    IN IF before = {} THEN 0 ELSE CHOOSE j \in before : \A k \in before : k <= j

\* GroupBy.ffill(): a missing cell takes the last observed value of its group
RECURSIVE Ffill(_, _, _)
Ffill(a, sym, i) ==
    IF i = 0 THEN NaN
    ELSE IF NotNa(a[i]) THEN a[i]
    ELSE Ffill(a, sym, GroupPrev(sym, i))

\* df.groupby('symbol')[c].pct_change(periods=1): (filled / filled.shift(1)) - 1
PctChange(a, sym) ==
    [i \in DOMAIN a |->
        LET p == GroupPrev(sym, i)
        IN IF p = 0 THEN NaN
           ELSE Sub(Div(Ffill(a, sym, i), Ffill(a, sym, p)), Num(1))]

\* df.sort_values(['symbol', 'date']): a stable lexicographic sort of the rows
SortPerm(k1, k2) ==
    LET n == Len(k1)
        Before(i, j) == \/ k1[i] < k1[j]
                        \/ k1[i] = k1[j] /\ k2[i] < k2[j]
                        \/ k1[i] = k1[j] /\ k2[i] = k2[j] /\ i < j
    IN CHOOSE p \in [1..n -> 1..n] :
          /\ \A i, j \in 1..n : i # j => p[i] # p[j]
          /\ \A i, j \in 1..n : i < j => Before(p[i], p[j])
Permute(t, p) ==
    [idx |-> [i \in 1..NRows(t) |-> t.idx[p[i]]],
     col |-> [c \in Cols(t) |-> [i \in 1..NRows(t) |-> t.col[c][p[i]]]]]
SortValues(t, c1, c2) == Permute(t, SortPerm(t.col[c1], t.col[c2]))

----------------------------------------------------------------------------
(* AcademicFeatureEngineer._prepare_database_fields *)

DefaultRoa == Num(0)
DefaultLeverage == Rat(3, 10)
DefaultCurrentRatio == Rat(12, 10)
DefaultRevenueGrowth == Num(3)
DefaultRetainedEarningsRatio == Rat(1, 10)
DefaultEquityValue == Num(1000000)
DefaultDebtValue == Num(300000)
SinglePeriodGrowth == Num(5)
Hundred == Num(100)

defaults ==
    [roa |-> DefaultRoa, leverage |-> DefaultLeverage,
     current_ratio |-> DefaultCurrentRatio, revenue_growth |-> DefaultRevenueGrowth,
     retained_earnings_ratio |-> DefaultRetainedEarningsRatio,
     equity_value |-> DefaultEquityValue, debt_value |-> DefaultDebtValue]

\* x / y.replace(0, np.nan)
GuardedDiv(a, b) == VDiv(a, ReplaceZero(b))

PrepSymbol(t) ==
    IF ~Has(t, "symbol") /\ Has(t, "ticker") THEN Assign(t, "symbol", t.col["ticker"]) ELSE t

\* field_mapping: only two entries rename anything
PrepFieldMapping(t) ==
    LET t1 == IF Has(t, "return_on_assets") /\ ~Has(t, "roa")
              THEN Assign(t, "roa", t.col["return_on_assets"]) ELSE t
    IN IF Has(t1, "leverage_ratio") /\ ~Has(t1, "leverage")
       THEN Assign(t1, "leverage", t1.col["leverage_ratio"]) ELSE t1

PrepRoa(t) ==
    IF ~Has(t, "roa") /\ Has(t, "net_income") /\ Has(t, "total_assets")
    THEN Assign(t, "roa", VScale(GuardedDiv(t.col["net_income"], t.col["total_assets"]), Hundred))
    ELSE t

PrepLeverage(t) ==
    IF Has(t, "leverage") THEN t
    ELSE IF Has(t, "leverage_ratio") THEN Assign(t, "leverage", t.col["leverage_ratio"])
    ELSE IF Has(t, "total_debt") /\ Has(t, "total_assets")
         THEN Assign(t, "leverage", GuardedDiv(t.col["total_debt"], t.col["total_assets"]))
    ELSE IF Has(t, "total_liabilities") /\ Has(t, "total_assets")
         THEN Assign(t, "leverage", GuardedDiv(t.col["total_liabilities"], t.col["total_assets"]))
    ELSE t

PrepCurrentRatio(t) ==
    IF ~Has(t, "current_ratio") /\ Has(t, "current_assets") /\ Has(t, "current_liabilities")
    THEN Assign(t, "current_ratio",
                GuardedDiv(t.col["current_assets"], t.col["current_liabilities"]))
    ELSE t

PrepRetainedEarnings(t) ==
    IF Has(t, "retained_earnings_ratio") THEN t
    ELSE IF Has(t, "retained_earnings") /\ Has(t, "total_assets")
         THEN Assign(t, "retained_earnings_ratio",
                     GuardedDiv(t.col["retained_earnings"], t.col["total_assets"]))
    ELSE AssignScalar(t, "retained_earnings_ratio", DefaultRetainedEarningsRatio)

\* df_prep['symbol'] is read without a membership test
PrepRevenueGrowthRaises(t) ==
    ~Has(t, "revenue_growth") /\ Has(t, "total_revenue") /\ ~Has(t, "symbol")

PrepRevenueGrowth(t) ==
    IF ~Has(t, "revenue_growth") /\ Has(t, "total_revenue")
    THEN IF NUnique(t.col["symbol"]) > 1 /\ Has(t, "date")
         THEN LET s == SortValues(t, "symbol", "date")
              IN Assign(s, "revenue_growth",
                        VScale(PctChange(s.col["total_revenue"], s.col["symbol"]), Hundred))
         ELSE AssignScalar(t, "revenue_growth", SinglePeriodGrowth)
    ELSE t

PrepEquityValue(t) ==
    IF Has(t, "equity_value") THEN t
    ELSE IF Has(t, "equity") THEN Assign(t, "equity_value", t.col["equity"])
    ELSE IF Has(t, "total_assets") /\ Has(t, "total_liabilities")
         THEN Assign(t, "equity_value", VSub(t.col["total_assets"], t.col["total_liabilities"]))
    ELSE t

PrepDebtValue(t) ==
    IF Has(t, "debt_value") THEN t
    ELSE IF Has(t, "total_debt") THEN Assign(t, "debt_value", t.col["total_debt"])
    ELSE IF Has(t, "total_liabilities") THEN Assign(t, "debt_value", t.col["total_liabilities"])
    ELSE AssignScalar(t, "debt_value", Num(0))

RECURSIVE PrepDefaults(_, _)
PrepDefaults(t, fields) ==
    IF fields = {} THEN t
    ELSE LET f == CHOOSE x \in fields : TRUE
             t1 == IF Has(t, f) THEN Assign(t, f, FillNa(t.col[f], defaults[f]))
                   ELSE AssignScalar(t, f, defaults[f])
         IN PrepDefaults(t1, fields \ {f})

prepare_database_fields_raises(t) == PrepRevenueGrowthRaises(PrepSymbol(t))

prepare_database_fields(t) ==
    PrepDefaults(
      PrepDebtValue(PrepEquityValue(PrepRevenueGrowth(PrepRetainedEarnings(
        PrepCurrentRatio(PrepLeverage(PrepRoa(PrepFieldMapping(PrepSymbol(t))))))))),
      DOMAIN defaults)

----------------------------------------------------------------------------
(* AcademicFeatureEngineer.create_accounting_features *)

\* df_accounting.groupby('symbol') is reached without a membership test
accounting_features_raises(t) ==
    ~Has(t, "symbol") /\ (Has(t, "total_revenue") \/ (Has(t, "net_income") /\ Has(t, "total_assets")))

AcctRoa(t) ==
    IF Has(t, "net_income") /\ Has(t, "total_assets")
    THEN Assign(t, "roa", VScale(VDiv(t.col["net_income"], t.col["total_assets"]), Hundred))
    ELSE t

AcctRevenueGrowth(t) ==
    IF Has(t, "total_revenue")
    THEN Assign(t, "revenue_growth",
                VScale(PctChange(t.col["total_revenue"], t.col["symbol"]), Hundred))
    ELSE t

AcctLeverage(t) ==
    IF Has(t, "total_debt") /\ Has(t, "total_assets")
    THEN Assign(t, "leverage", VDiv(t.col["total_debt"], t.col["total_assets"]))
    ELSE t

AcctRetainedEarnings(t) ==
    IF Has(t, "retained_earnings") /\ Has(t, "total_assets")
    THEN Assign(t, "retained_earnings_ratio",
                VDiv(t.col["retained_earnings"], t.col["total_assets"]))
    ELSE t

AcctNetIncomeGrowth(t) ==
    IF Has(t, "net_income") /\ Has(t, "total_assets")
    THEN Assign(t, "net_income_growth_normalized",
                VDiv(PctChange(t.col["net_income"], t.col["symbol"]), t.col["total_assets"]))
    ELSE t

create_accounting_features(t) ==
    AcctNetIncomeGrowth(AcctRetainedEarnings(AcctLeverage(AcctRevenueGrowth(AcctRoa(t)))))

----------------------------------------------------------------------------
(* AcademicFeatureEngineer.calculate_naive_distance_to_default *)

required_fields == {"equity_value", "debt_value", "equity_volatility", "stock_return"}
T == Num(1)
\* np.sqrt(T) for T = 1.0
SqrtT == Num(1)

NaiveSigmaV(E, F, sigma_E) ==
    Add(Mul(Div(E, Add(E, F)), sigma_E),
        Mul(Div(F, Add(E, F)), Add(Rat(5, 100), Mul(Rat(25, 100), sigma_E))))

\* NaiveDtd without the variance correction 0.5 * sigma_v^2 * T
NaiveDtdNoVarianceTerm(E, F, sigma_v, r) ==
    Div(Add(Ln(Div(Add(E, F), F)), r), Mul(sigma_v, SqrtT))

NaiveDtd(E, F, sigma_v, r) ==
    Div(Sub(Add(Ln(Div(Add(E, F), F)), r), Mul(Mul(Rat(1, 2), Mul(sigma_v, sigma_v)), T)),
        Mul(sigma_v, SqrtT))

calculate_naive_distance_to_default(t) ==
    IF ~(required_fields \subseteq Cols(t))
    THEN AssignScalar(AssignScalar(t, "naive_dtd", NaN), "naive_sigma_v", NaN)
    ELSE LET E == t.col["equity_value"]
             F == t.col["debt_value"]
             sE == t.col["equity_volatility"]
             r == t.col["stock_return"]
             sv == [i \in 1..NRows(t) |-> NaiveSigmaV(E[i], F[i], sE[i])]
         IN Assign(Assign(t, "naive_sigma_v", sv), "naive_dtd",
                   [i \in 1..NRows(t) |-> NaiveDtd(E[i], F[i], sv[i], r[i])])

----------------------------------------------------------------------------
(* AcademicFeatureEngineer.create_market_features *)

\* groupby('symbol') on a frame without symbol: KeyError.  With symbol, the
\* grouped rolling mean carries a (symbol, row) MultiIndex and its insertion as
\* a column of the flat-indexed frame is refused: TypeError.
market_features_error(t) ==
    IF ~Has(t, "close_price") THEN "none"
    ELSE IF ~Has(t, "symbol") THEN "KeyError" ELSE "TypeError"

create_market_features(t) ==
    IF {"equity_value", "debt_value"} \subseteq Cols(t)
    THEN calculate_naive_distance_to_default(t)
    ELSE t

----------------------------------------------------------------------------
(* AcademicFeatureEngineer.create_macroeconomic_features (macro_data = None) *)

Milli(k) == Rat(k, 1000)
rating_map ==
    [g \in {"AAA", "AA+", "AA", "AA-", "A+", "A", "A-", "BBB+", "BBB", "BBB-",
            "BB+", "BB", "BB-", "B+", "B", "B-", "CCC+", "CCC", "CCC-", "CC", "C", "D"} |->
        CASE g = "AAA" -> Milli(0)     [] g = "AA+" -> Milli(56)   [] g = "AA" -> Milli(111)
          [] g = "AA-" -> Milli(167)   [] g = "A+" -> Milli(222)   [] g = "A" -> Milli(278)
          [] g = "A-" -> Milli(333)    [] g = "BBB+" -> Milli(389) [] g = "BBB" -> Milli(444)
          [] g = "BBB-" -> Milli(500)  [] g = "BB+" -> Milli(556)  [] g = "BB" -> Milli(611)
          [] g = "BB-" -> Milli(667)   [] g = "B+" -> Milli(722)   [] g = "B" -> Milli(778)
          [] g = "B-" -> Milli(833)    [] g = "CCC+" -> Milli(889) [] g = "CCC" -> Milli(944)
          [] g = "CCC-" -> Milli(956)  [] g = "CC" -> Milli(972)   [] g = "C" -> Milli(989)
          [] g = "D" -> Milli(1000)]

\* Series.map(dict): a key the dict lacks maps to NaN
MapRating(g) == IF g \in DOMAIN rating_map THEN rating_map[g] ELSE NaN

create_macroeconomic_features(t) ==
    IF Has(t, "credit_rating")
    THEN Assign(t, "credit_rating_numeric",
                [i \in 1..NRows(t) |-> MapRating(t.col["credit_rating"][i])])
    ELSE t

----------------------------------------------------------------------------
(* AcademicFeatureEngineer.calculate_rolling_averages *)

window == 4
min_periods == 2
rolling_cols == {"roa", "revenue_growth", "net_income", "total_revenue"}

\* the rows of the window ending at row i: i and its window-1 predecessors in the group
RECURSIVE WindowRows(_, _, _)
WindowRows(sym, i, w) ==
    IF i = 0 \/ w = 0 THEN {} ELSE {i} \cup WindowRows(sym, GroupPrev(sym, i), w - 1)

RECURSIVE SumOver(_, _)
SumOver(a, rows) ==
    IF rows = {} THEN Num(0)
    ELSE LET i == CHOOSE x \in rows : TRUE IN Add(a[i], SumOver(a, rows \ {i}))

\* Rolling.mean(): infinities are read as missing, missing cells are skipped,
\* fewer than min_periods observations give NaN
RollingMean(a, sym) ==
    [i \in DOMAIN a |->
        LET obs == {j \in WindowRows(sym, i, window) : IsFin(a[j])}
        IN IF Cardinality(obs) < min_periods THEN NaN
           ELSE Div(SumOver(a, obs), Num(Cardinality(obs)))]

RollingName(c) ==
    CASE c = "roa" -> "roa_rolling_4q"
      [] c = "revenue_growth" -> "revenue_growth_rolling_4q"
      [] c = "net_income" -> "net_income_rolling_4q"
      [] c = "total_revenue" -> "total_revenue_rolling_4q"

RECURSIVE RollCols(_, _)
RollCols(t, cs) ==
    IF cs = {} THEN t
    ELSE LET c == CHOOSE x \in cs : TRUE
             t1 == IF Has(t, c)
                   THEN Assign(t, RollingName(c), RollingMean(t.col[c], t.col["symbol"]))
                   ELSE t
         IN RollCols(t1, cs \ {c})

calculate_rolling_averages(t) == RollCols(t, rolling_cols)

----------------------------------------------------------------------------
(* AcademicFeatureEngineer.create_interaction_features *)

\* a variant that asks for revenue_growth alone before it multiplies
create_interaction_features_growth_alone(t) ==
    LET t1 == IF Has(t, "roa") /\ Has(t, "leverage")
              THEN Assign(t, "roa_leverage_interaction", VMul(t.col["roa"], t.col["leverage"]))
              ELSE t
        t2 == IF Has(t1, "revenue_growth")
              THEN Assign(t1, "growth_volatility_interaction",
                          IF Has(t1, "equity_volatility_100d")
                          THEN VMul(t1.col["revenue_growth"], t1.col["equity_volatility_100d"])
                          ELSE t1.col["revenue_growth"])
              ELSE t1
    IN IF Has(t2, "market_cap")
       THEN Assign(t2, "log_market_cap", VLn(t2.col["market_cap"]))
       ELSE t2

create_interaction_features(t) ==
    LET t1 == IF Has(t, "roa") /\ Has(t, "leverage")
              THEN Assign(t, "roa_leverage_interaction", VMul(t.col["roa"], t.col["leverage"]))
              ELSE t
        t2 == IF Has(t1, "revenue_growth") /\ Has(t1, "equity_volatility_100d")
              THEN Assign(t1, "growth_volatility_interaction",
                          VMul(t1.col["revenue_growth"], t1.col["equity_volatility_100d"]))
              ELSE t1
    IN IF Has(t2, "market_cap")
       THEN Assign(t2, "log_market_cap", VLn(t2.col["market_cap"]))
       ELSE t2

----------------------------------------------------------------------------
(* AcademicFeatureEngineer.winsorize_variables *)

exclude_cols == {"symbol", "date", "company", "sector", "industry"}
\* the columns of the model that are not of a numeric dtype
ObjectCols == {"symbol", "ticker", "date", "credit_rating", "company", "sector", "industry"}

\* the k-th smallest of the observed (non-NaN) cells of a, k in 1..count
Observed(a) == {i \in DOMAIN a : NotNa(a[i])}
KthSmallest(a, k) ==
    LET obs == Observed(a)
        i == CHOOSE x \in obs :
                /\ Cardinality({j \in obs : Lt(a[j], a[x])}) < k
                /\ k <= Cardinality({j \in obs : Le(a[j], a[x])})
    IN a[i]

\* numpy's _lerp, the interpolation of np.percentile(method='linear')
Lerp(a, b, t) ==
    IF Le(Rat(1, 2), t) THEN Sub(b, Mul(Sub(b, a), Sub(Num(1), t)))
    ELSE Add(a, Mul(Sub(b, a), t))

\* Series.quantile(q): linear interpolation over the observed cells, NaN if none
Quantile(a, q) ==
    LET n == Cardinality(Observed(a))
        pos == Mul(Num(n - 1), q)
        lo == pos[1] \div pos[2]
        gamma == Sub(pos, Num(lo))
        hi == IF lo + 1 > n - 1 THEN n - 1 ELSE lo + 1
    IN IF n = 0 THEN NaN
       ELSE Lerp(KthSmallest(a, lo + 1), KthSmallest(a, hi + 1), gamma)

\* Series.clip(lower, upper): a NaN bound does not clip; upper is applied first
ClipCell(v, lower, upper) ==
    LET u == IF IsNaN(v) \/ IsNaN(upper) \/ Le(v, upper) THEN v ELSE upper
    IN IF IsNaN(u) \/ IsNaN(lower) \/ Le(lower, u) THEN u ELSE lower
Clip(a, lower, upper) == [i \in DOMAIN a |-> ClipCell(a[i], lower, upper)]

WinsorizeColumn(a, level) ==
    Clip(a, Quantile(a, level), Quantile(a, Sub(Num(1), level)))

winsorize_variables(t, level) ==
    [idx |-> t.idx,
     col |-> [c \in Cols(t) |->
                IF c \in ObjectCols \/ c \in exclude_cols THEN t.col[c]
                ELSE WinsorizeColumn(t.col[c], level)]]

----------------------------------------------------------------------------
(* AcademicFeatureEngineer.transform_target_variable *)

Series(idx, val) == [idx |-> idx, val |-> val]
ColumnSeries(t, c) == Series(t.idx, t.col[c])

\* the positions of a set of rows, in row order
SortedSeq(S) == [k \in 1..Cardinality(S) |-> CHOOSE i \in S : Cardinality({j \in S : j <= i}) = k]

\* s[s > 0]: boolean indexing keeps the rows that pass, with their labels
FilterPositive(s) ==
    LET keep == SortedSeq({i \in DOMAIN s.val : Gt(s.val[i], Num(0))})
    IN Series([k \in DOMAIN keep |-> s.idx[keep[k]]], [k \in DOMAIN keep |-> s.val[keep[k]]])

transform_target_variable(cds_spreads) ==
    LET cds_spreads_positive == FilterPositive(Series(cds_spreads.idx, ReplaceZero(cds_spreads.val)))
    IN Series(cds_spreads_positive.idx, VLn(cds_spreads_positive.val))

----------------------------------------------------------------------------
(* AcademicFeatureEngineer.prepare_model_features, one action per stage *)

EmptyTable == [idx |-> <<>>, col |-> <<>>]
EmptySeries == [idx |-> <<>>, val |-> <<>>]
NoResult == [features |-> EmptyTable, target |-> EmptySeries]
NoScal == [E |-> NaN, F |-> NaN, sigma_E |-> NaN, r |-> NaN, dtd |-> NaN]
NoFit == [model_type |-> "none"]
target_col == "cds_spread"

\* the values np.random.normal(0, 10) / np.random.uniform(10, 100) may return
NormalDraws == {Num(-30), Num(0)}
UniformDraws == {Num(10), Num(55)}
DefaultRiskScore == Rat(1, 2)
Max(a, b) == IF Lt(a, b) THEN b ELSE a

Raise(e) ==
    /\ err' = e
    /\ pc' = "raised"
    /\ UNCHANGED <<op, df, df0, cur, target, run, first, scal, winsorize_level, rebound, fit>>

Step(next, t) ==
    /\ cur' = t
    /\ pc' = next
    /\ UNCHANGED <<op, df, df0, target, err, run, first, scal, winsorize_level, rebound, fit>>

\* df_prepared = self._prepare_database_fields(df)
Prepare ==
    /\ op = "prepare_model_features" /\ pc = "prepare"
    /\ IF prepare_database_fields_raises(df) THEN Raise("KeyError")
       ELSE Step("accounting", prepare_database_fields(df))

\* df_features = self.create_accounting_features(df_prepared)
Accounting ==
    /\ op = "prepare_model_features" /\ pc = "accounting"
    /\ IF accounting_features_raises(cur) THEN Raise("KeyError")
       ELSE Step("market", create_accounting_features(cur))

\* df_features = self.create_market_features(df_features)
Market ==
    /\ op = "prepare_model_features" /\ pc = "market"
    /\ IF market_features_error(cur) # "none" THEN Raise(market_features_error(cur))
       ELSE Step("macro", create_market_features(cur))

\* df_features = self.create_macroeconomic_features(df_features)
Macro ==
    /\ op = "prepare_model_features" /\ pc = "macro"
    /\ Step("rolling", create_macroeconomic_features(cur))

\* if 'date' in df_features.columns and len(df_features['symbol'].unique()) > 1
Rolling ==
    /\ op = "prepare_model_features" /\ pc = "rolling"
    /\ IF ~Has(cur, "date") THEN Step("interaction", cur)
       ELSE IF ~Has(cur, "symbol") THEN Raise("KeyError")
       ELSE IF NUnique(cur.col["symbol"]) > 1
            THEN Step("interaction", calculate_rolling_averages(cur))
       ELSE Step("interaction", cur)

\* df_features = self.create_interaction_features(df_features)
Interaction ==
    /\ op = "prepare_model_features" /\ pc = "interaction"
    /\ Step("winsorize", create_interaction_features(cur))

\* df_features = self.winsorize_variables(df_features)
Winsorize ==
    /\ op = "prepare_model_features" /\ pc = "winsorize"
    /\ Step("target", winsorize_variables(cur, winsorize_level))

Return(s) ==
    /\ target' = s
    /\ pc' = "done"
    /\ UNCHANGED <<op, df, df0, cur, err, run, first, scal, winsorize_level, rebound, fit>>

\* log_target = self.transform_target_variable(df_features[target_col])
TransformTarget ==
    /\ op = "prepare_model_features" /\ pc = "target"
    /\ Has(cur, target_col)
    /\ Return(transform_target_variable(ColumnSeries(cur, target_col)))

\* mock spreads from the risk score plus Gaussian noise
MockTargetFromRisk ==
    /\ op = "prepare_model_features" /\ pc = "target"
    /\ ~Has(cur, target_col)
    /\ Has(cur, "risk_score") /\ \E i \in 1..NRows(cur) : NotNa(cur.col["risk_score"][i])
    /\ \E noise \in [1..NRows(cur) -> NormalDraws] :
          LET risk_scores == FillNa(cur.col["risk_score"], DefaultRiskScore)
              mock_spreads == [i \in 1..NRows(cur) |->
                                 Max(Add(Mul(risk_scores[i], Num(50)), noise[i]), Num(1))]
          IN Return(transform_target_variable(Series(RangeIndex(NRows(cur)), mock_spreads)))

\* mock spreads drawn uniformly
MockTargetUniform ==
    /\ op = "prepare_model_features" /\ pc = "target"
    /\ ~Has(cur, target_col)
    /\ ~(Has(cur, "risk_score") /\ \E i \in 1..NRows(cur) : NotNa(cur.col["risk_score"][i]))
    /\ \E mock_spreads \in [1..NRows(cur) -> UniformDraws] :
          Return(transform_target_variable(Series(RangeIndex(NRows(cur)), mock_spreads)))

\* the caller invokes prepare_model_features again on the same table
Reinvoke ==
    /\ op = "prepare_model_features" /\ pc = "done" /\ run = 1
    /\ first' = [features |-> cur, target |-> target]
    /\ run' = 2
    /\ pc' = "prepare"
    /\ cur' = EmptyTable
    /\ target' = EmptySeries
    /\ UNCHANGED <<op, df, df0, err, scal, winsorize_level, rebound, fit>>

NextPipeline ==
    \/ Prepare \/ Accounting \/ Market \/ Macro \/ Rolling \/ Interaction \/ Winsorize
    \/ TransformTarget \/ MockTargetFromRisk \/ MockTargetUniform \/ Reinvoke

----------------------------------------------------------------------------
(* Input panels *)

MaxRows == 2

\* a column of n rows that repeats a pattern of cells
Pat(cells, n) == [i \in 1..n |-> cells[((i - 1) % Len(cells)) + 1]]
Absent == <<>>

\* the table whose columns are the chosen non-absent ones
Build(n, ch) ==
    [idx |-> RangeIndex(n),
     col |-> [c \in {x \in DOMAIN ch : ch[x] # Absent} |-> ch[c]]]

SymbolChoices(n) == {Absent, Pat(<<1>>, n), Pat(<<1, 2>>, n), Pat(<<2, 1>>, n)}
DateChoices(n) == {Absent, [i \in 1..n |-> i], [i \in 1..n |-> n + 1 - i]}
Opt(cells, n) == {Absent, Pat(cells, n)}

\* panels that exercise the accounting ratios
AccountingPanelsOf(n) ==
    { Build(n, [symbol |-> sy, date |-> da, net_income |-> ni, total_assets |-> ta,
                total_debt |-> td, total_liabilities |-> tl, total_revenue |-> tr]) :
        sy \in SymbolChoices(n), da \in DateChoices(n),
        ni \in Opt(<<Num(5), Num(0)>>, n),
        ta \in {Absent, Pat(<<Num(0), Num(10)>>, n), Pat(<<NaN, Num(10)>>, n)},
        td \in Opt(<<Num(3)>>, n), tl \in Opt(<<Num(4)>>, n),
        tr \in Opt(<<Num(0), Num(7)>>, n) }
AccountingPanels == UNION {AccountingPanelsOf(n) : n \in 1..MaxRows}

\* panels that exercise the market, interaction and target columns
MarketPanelsOf(n) ==
    { Build(n, [symbol |-> sy, date |-> da, equity_value |-> ev, debt_value |-> dv,
                equity_volatility |-> vol, stock_return |-> ret, market_cap |-> mc,
                cds_spread |-> cds, risk_score |-> rs, close_price |-> cp,
                credit_rating |-> cr]) :
        sy \in {Absent, Pat(<<1, 2>>, n)}, da \in {Absent, [i \in 1..n |-> 1]},
        ev \in Opt(<<Num(1000000), NaN>>, n), dv \in Opt(<<Num(0), Num(1000000)>>, n),
        vol \in Opt(<<Rat(3, 10)>>, n), ret \in Opt(<<Rat(2, 25)>>, n),
        mc \in Opt(<<Num(0), Num(8)>>, n),
        cds \in Opt(<<Num(5), Num(0)>>, n), rs \in Opt(<<NaN, Rat(1, 2)>>, n),
        cp \in Opt(<<Num(20)>>, n), cr \in Opt(<<"AA", "NR">>, n) }
MarketPanels == UNION {MarketPanelsOf(n) : n \in 1..MaxRows}

DefaultLevel == Rat(1, 100)

InitPipeline ==
    /\ op = "prepare_model_features"
    /\ pc = "prepare"
    /\ df \in AccountingPanels \cup MarketPanels
    /\ df0 = df
    /\ cur = EmptyTable
    /\ target = EmptySeries
    /\ err = "none"
    /\ run = 1
    /\ first = NoResult
    /\ scal = NoScal
    /\ winsorize_level = DefaultLevel
    /\ rebound = FALSE
    /\ fit = NoFit

Spec == InitPipeline /\ [][NextPipeline]_vars

----------------------------------------------------------------------------
(* Claims about prepare_model_features *)

\* the cell of the caller's table in the row labelled l
InputCell(c, l) == df.col[c][l + 1]
NumericCols(t) == Cols(t) \ ObjectCols
Returned == op = "prepare_model_features" /\ pc = "done"
\* create_accounting_features has returned and cur is its result
AccountingReturned == op = "prepare_model_features" /\ pc = "market"

ZeroOrMissing(v) == IsZero(v) \/ IsNaN(v)
RowsWithoutAssets(t) ==
    IF Has(df, "total_assets")
    THEN {i \in 1..NRows(t) : ZeroOrMissing(InputCell("total_assets", t.idx[i]))}
    ELSE {}
RatioCellsMissing(t, i) ==
    /\ Has(t, "roa") => IsNaN(t.col["roa"][i])
    /\ Has(t, "leverage") => IsNaN(t.col["leverage"][i])

\* C1: in the table produced by create_accounting_features and in the table
\* returned by prepare_model_features, a row whose total_assets is 0 or missing
\* has a missing roa and a missing leverage.
C1_AssetsGuard ==
    (AccountingReturned \/ Returned) =>
        \A i \in RowsWithoutAssets(cur) : RatioCellsMissing(cur, i)

\* C3: every numeric cell of the table returned by prepare_model_features is
\* finite or missing (the raw inputs are all finite or missing).
C3_NoInfinity ==
    Returned => \A c \in NumericCols(cur) : \A i \in 1..NRows(cur) : ~IsInf(cur.col[c][i])

\* C8: a second invocation of prepare_model_features on the same table returns
\* the same feature table and the same target series as the first.
C8_Deterministic ==
    (Returned /\ run = 2) => (cur = first.features /\ target = first.target)

\* C9: prepare_model_features raises for no input table, and a derived feature
\* whose required column is missing from the input is absent from the output.
DtdInputsMissing == ~({"equity_volatility", "stock_return"} \subseteq Cols(df))
C9_NeverRaises ==
    /\ err = "none"
    /\ (Returned /\ DtdInputsMissing) => ({"naive_dtd", "naive_sigma_v"} \cap Cols(cur) = {})

----------------------------------------------------------------------------
(* api.calculate_naive_distance_to_default (the standalone calculator) *)

RECURSIVE Pow10(_)
Pow10(k) == IF k = 0 THEN 1 ELSE 10 * Pow10(k - 1)

\* floor(n/d * 10^k) for n >= 0, digit by digit
RECURSIVE FloorScaled(_, _, _)
FloorScaled(n, d, k) ==
    IF k = 0 THEN n \div d
    ELSE (n \div d) * Pow10(k) + FloorScaled((n % d) * 10, d, k - 1)

\* v * 10^k rounded to the nearest integer, for a finite v
RoundScaled(v, k) == Sgn(v[1]) * ((FloorScaled(Abs(v[1]), v[2], k + 1) + 5) \div 10)

\* round(x, ndigits): NaN and the infinities are returned as they are
Round(v, ndigits) == IF IsFin(v) THEN Rat(RoundScaled(v, ndigits), Pow10(ndigits)) ELSE v

\* bool(x): None and 0 are false, NaN is true
Truthy(v) == v # None /\ ~IsZero(v)

api_naive_distance_to_default(equity_value, debt_value, equity_volatility, stock_return) ==
    IF ~(Truthy(equity_value) /\ Truthy(debt_value) /\ Truthy(equity_volatility)) THEN None
    ELSE IF Le(equity_value, Num(0)) \/ Le(debt_value, Num(0)) THEN None
    ELSE IF stock_return = None THEN None          \* TypeError, caught by except Exception
    ELSE Round(NaiveDtd(equity_value, debt_value,
                        NaiveSigmaV(equity_value, debt_value, equity_volatility),
                        stock_return), 6)

----------------------------------------------------------------------------
(* The two distance-to-default calculators, called on one observation *)

ExampleE == Num(1000000)
ExampleF == Num(300000)
ExampleSigmaE == Rat(3, 10)
ExampleR == Rat(2, 25)

EquityValues == {NaN, Num(-100000), Num(0), ExampleE}
DebtValues == {NaN, Num(-300000), Num(0), ExampleF, Num(1000000)}
Volatilities == {NaN, Num(0), ExampleSigmaE}
StockReturns == {NaN, ExampleR}

OneRow(ch) == Build(1, ch)

InitDtd ==
    /\ op \in {"calculate_naive_distance_to_default", "api.calculate_naive_distance_to_default"}
    /\ pc = "call"
    /\ \E E \in EquityValues \cup {None}, F \in DebtValues \cup {None},
          sE \in Volatilities \cup {None}, r \in StockReturns \cup {None} :
          /\ scal = [E |-> E, F |-> F, sigma_E |-> sE, r |-> r, dtd |-> NaN]
          /\ op = "calculate_naive_distance_to_default" =>
                \* a column that would hold None is a column the table lacks
                df = OneRow([equity_value |-> IF E = None THEN Absent ELSE <<E>>,
                             debt_value |-> IF F = None THEN Absent ELSE <<F>>,
                             equity_volatility |-> IF sE = None THEN Absent ELSE <<sE>>,
                             stock_return |-> IF r = None THEN Absent ELSE <<r>>])
          /\ op = "api.calculate_naive_distance_to_default" => df = EmptyTable
    /\ df0 = df
    /\ cur = EmptyTable
    /\ target = EmptySeries
    /\ err = "none"
    /\ run = 1
    /\ first = NoResult
    /\ winsorize_level = DefaultLevel
    /\ rebound = FALSE
    /\ fit = NoFit

\* df_dtd = engineer.calculate_naive_distance_to_default(df)
DtdColumn ==
    /\ op = "calculate_naive_distance_to_default" /\ pc = "call"
    /\ cur' = calculate_naive_distance_to_default(df)
    /\ pc' = "done"
    /\ UNCHANGED <<op, df, df0, target, err, run, first, scal, winsorize_level, rebound, fit>>

\* dtd = calculate_naive_distance_to_default(E, F, sigma_E, r)
DtdStandalone ==
    /\ op = "api.calculate_naive_distance_to_default" /\ pc = "call"
    /\ scal' = [scal EXCEPT !.dtd = api_naive_distance_to_default(scal.E, scal.F, scal.sigma_E, scal.r)]
    /\ pc' = "done"
    /\ UNCHANGED <<op, df, df0, cur, target, err, run, first, winsorize_level, rebound, fit>>

NextDtd == DtdColumn \/ DtdStandalone
SpecDtd == InitDtd /\ [][NextDtd]_vars

ColumnDone == op = "calculate_naive_distance_to_default" /\ pc = "done"
StandaloneDone == op = "api.calculate_naive_distance_to_default" /\ pc = "done"
ColumnDtd == cur.col["naive_dtd"][1]
ColumnSigmaV == cur.col["naive_sigma_v"][1]

\* an input is missing, or E <= 0, or F <= 0
DtdUndefined ==
    \/ IsMissing(scal.E) \/ IsMissing(scal.F) \/ IsMissing(scal.sigma_E) \/ IsMissing(scal.r)
    \/ Le(scal.E, Num(0)) \/ Le(scal.F, Num(0))

\* C2: both calculators yield a missing distance-to-default (and sigma_v) exactly
\* when an input is missing or E <= 0 or F <= 0, and a value otherwise.
C2_DtdMissingIffUndefined ==
    /\ ColumnDone => /\ IsMissing(ColumnDtd) <=> DtdUndefined
                     /\ IsMissing(ColumnSigmaV) <=> DtdUndefined
    /\ StandaloneDone => (IsMissing(scal.dtd) <=> DtdUndefined)

IsExample ==
    scal.E = ExampleE /\ scal.F = ExampleF /\ scal.sigma_E = ExampleSigmaE /\ scal.r = ExampleR

\* C6 as stated: on the worked example naive_sigma_v is 0.2596 and naive_dtd is
\* 5.818, to 3 decimal places.
C6_Example5818 ==
    /\ (ColumnDone /\ IsExample) =>
          (RoundScaled(ColumnSigmaV, 3) = 260 /\ RoundScaled(ColumnDtd, 3) = 5818)
    /\ (StandaloneDone /\ IsExample) => RoundScaled(scal.dtd, 3) = 5818

\* C6 amended: on the worked example naive_sigma_v is 0.2596 (27/104) and
\* naive_dtd is 5.826, to 3 decimal places, from both calculators.
C6_Example5826 ==
    /\ (ColumnDone /\ IsExample) =>
          /\ RoundScaled(ColumnSigmaV, 4) = 2596
          /\ RoundScaled(ColumnDtd, 3) = 5826
    /\ (StandaloneDone /\ IsExample) => RoundScaled(scal.dtd, 3) = 5826

C6_ExampleComputed == ColumnDone /\ IsExample /\ IsFin(ColumnDtd)

----------------------------------------------------------------------------
(* winsorize_variables applied to a table, and again to its own result *)

WinsorizeLevels == {Rat(1, 100), Rat(1, 4), Rat(49, 100)}
WinsorizeCells == {NaN, Num(0), Num(50), Num(100)}

WinsorizeTablesOf(n) ==
    { Build(n, [symbol |-> sy, leverage |-> x]) :
        sy \in Opt(<<1, 2>>, n), x \in [1..n -> WinsorizeCells] }
WinsorizeTables == UNION {WinsorizeTablesOf(n) : n \in 1..MaxRows}

InitWinsorize ==
    /\ op = "winsorize_variables"
    /\ pc = "call"
    /\ df \in WinsorizeTables
    /\ df0 = df
    /\ cur = EmptyTable
    /\ target = EmptySeries
    /\ err = "none"
    /\ run = 1
    /\ first = NoResult
    /\ scal = NoScal
    /\ winsorize_level \in WinsorizeLevels
    /\ rebound = FALSE
    /\ fit = NoFit

\* w1 = engineer.winsorize_variables(df)
WinsorizeOnce ==
    /\ op = "winsorize_variables" /\ pc = "call"
    /\ cur' = winsorize_variables(df, winsorize_level)
    /\ first' = [features |-> cur', target |-> EmptySeries]
    /\ pc' = "once"
    /\ UNCHANGED <<op, df, df0, target, err, run, scal, winsorize_level, rebound, fit>>

\* w2 = engineer.winsorize_variables(w1)
WinsorizeAgain ==
    /\ op = "winsorize_variables" /\ pc = "once"
    /\ cur' = winsorize_variables(cur, winsorize_level)
    /\ run' = 2
    /\ pc' = "twice"
    /\ UNCHANGED <<op, df, df0, target, err, first, scal, winsorize_level, rebound, fit>>

NextWinsorize == WinsorizeOnce \/ WinsorizeAgain
SpecWinsorize == InitWinsorize /\ [][NextWinsorize]_vars

\* C4: winsorizing the result of winsorize_variables again, at the same level,
\* returns that result unchanged, column by column.
C4_WinsorizeIdempotent ==
    (op = "winsorize_variables" /\ pc = "twice") =>
        \A c \in Cols(cur) : cur.col[c] = first.features.col[c]

----------------------------------------------------------------------------
(* transform_target_variable applied to a series of spreads *)

MaxTargetLen == 3
TargetCells == {NaN, Num(-1), Num(0), Num(5), Num(100)}
TargetSeries == UNION {{Series(RangeIndex(n), v) : v \in [1..n -> TargetCells]} : n \in 1..MaxTargetLen}

InitTarget ==
    /\ op = "transform_target_variable"
    /\ pc = "call"
    /\ \E s \in TargetSeries : df = Table(s.idx, [cds_spread |-> s.val])
    /\ df0 = df
    /\ cur = EmptyTable
    /\ target = EmptySeries
    /\ err = "none"
    /\ run = 1
    /\ first = NoResult
    /\ scal = NoScal
    /\ winsorize_level = DefaultLevel
    /\ rebound = FALSE
    /\ fit = NoFit

\* log_spreads = engineer.transform_target_variable(df['cds_spread'])
TransformCall ==
    /\ op = "transform_target_variable" /\ pc = "call"
    /\ Return(transform_target_variable(ColumnSeries(df, target_col)))

NextTarget == TransformCall
SpecTarget == InitTarget /\ [][NextTarget]_vars

\* C5: the transformed series has one entry per input row, under the same index,
\* and an entry is missing exactly where the input is missing or <= 0 (so every
\* strictly positive input has its logarithm at its own position).
C5_TargetKeepsIndex ==
    (op = "transform_target_variable" /\ pc = "done") =>
        /\ target.idx = df.idx
        /\ \A i \in 1..NRows(df) :
              LET x == df.col[target_col][i]
              IN IF IsNaN(x) \/ Le(x, Num(0)) THEN IsNaN(target.val[i])
                 ELSE target.val[i] = Ln(x)

----------------------------------------------------------------------------
(* academic_features.prepare_data_for_engineering.  The function works on the
   table object it was handed: until its local name is rebound by sort_values,
   every column assignment lands in the caller's table. *)

\* datetime.now(), as an encoded date later than every date of the inputs
Now == 9

IsAllNa(a) == \A i \in DOMAIN a : IsNaN(a[i])

\* a scalar as it is broadcast over the rows of the table it is assigned to
Broadcast(t, v) == [i \in 1..NRows(t) |-> v]
\* df.get(c, default)
Get(t, c, default) == IF Has(t, c) THEN t.col[c] ELSE default

PdeDate(t) == IF Has(t, "date") THEN t ELSE AssignScalar(t, "date", Now)

PdeLeverageRaises(t) == ~Has(t, "leverage") /\ ~({"total_debt", "total_assets"} \subseteq Cols(t))
PdeLeverage(t) ==
    IF Has(t, "leverage") THEN t
    ELSE Assign(t, "leverage", FillNa(VDiv(t.col["total_debt"], t.col["total_assets"]), Num(0)))

PdeCurrentRatio(t) ==
    IF ~Has(t, "current_ratio") /\ Has(t, "current_assets") /\ Has(t, "current_liabilities")
    THEN Assign(t, "current_ratio",
                FillNa(VDiv(t.col["current_assets"], t.col["current_liabilities"]), Num(1)))
    ELSE t

PdeNeeds(t, c) == ~Has(t, c) \/ IsAllNa(t.col[c])

PdeRoaRaises(t) == PdeNeeds(t, "roa") /\ ~({"net_income", "total_assets"} \subseteq Cols(t))
PdeRoa(t) ==
    IF PdeNeeds(t, "roa")
    THEN Assign(t, "roa",
                FillNa(VScale(VDiv(t.col["net_income"], t.col["total_assets"]), Hundred), Num(0)))
    ELSE t

PdeRevenueGrowthRaises(t) ==
    PdeNeeds(t, "revenue_growth") /\ ~({"symbol", "total_revenue"} \subseteq Cols(t))
PdeRevenueGrowth(t) ==
    LET sorted == SortValues(t, "symbol", "date")
    IN Assign(sorted, "revenue_growth",
              FillNa(VScale(PctChange(sorted.col["total_revenue"], sorted.col["symbol"]), Hundred),
                     Num(0)))

PdeEquityValue(t) ==
    IF Has(t, "equity_value") THEN t
    ELSE Assign(t, "equity_value",
                Get(t, "equity", VSub(Get(t, "total_assets", Broadcast(t, Num(0))),
                                      Get(t, "total_liabilities", Broadcast(t, Num(0))))))

PdeDebtValue(t) ==
    IF Has(t, "debt_value") THEN t
    ELSE Assign(t, "debt_value", Get(t, "total_debt", Get(t, "total_liabilities", Broadcast(t, Num(0)))))

\* df[numeric_columns] = df[numeric_columns].fillna(0)
PdeFillNumeric(t) ==
    [idx |-> t.idx,
     col |-> [c \in Cols(t) |-> IF c \in ObjectCols THEN t.col[c] ELSE FillNa(t.col[c], Num(0))]]

\* an assignment through the local name: it reaches the caller's table as long
\* as the local name still refers to it
PdeStep(next, t) ==
    /\ cur' = t
    /\ df' = IF rebound THEN df ELSE t
    /\ pc' = next
    /\ UNCHANGED <<op, df0, target, err, run, first, scal, winsorize_level, rebound, fit>>

PdeEnsureDate ==
    /\ op = "prepare_data_for_engineering" /\ pc = "date"
    /\ PdeStep("leverage", PdeDate(cur))

PdeAddLeverage ==
    /\ op = "prepare_data_for_engineering" /\ pc = "leverage"
    /\ IF PdeLeverageRaises(cur) THEN Raise("KeyError")
       ELSE PdeStep("roa", PdeCurrentRatio(PdeLeverage(cur)))

PdeAddRoa ==
    /\ op = "prepare_data_for_engineering" /\ pc = "roa"
    /\ IF PdeRoaRaises(cur) THEN Raise("KeyError")
       ELSE PdeStep("revenue_growth", PdeRoa(cur))

\* df = df.sort_values(['symbol', 'date']) binds the local name to a new table
PdeAddRevenueGrowth ==
    /\ op = "prepare_data_for_engineering" /\ pc = "revenue_growth"
    /\ IF ~PdeNeeds(cur, "revenue_growth") THEN PdeStep("values", cur)
       ELSE IF PdeRevenueGrowthRaises(cur) THEN Raise("KeyError")
       ELSE /\ cur' = PdeRevenueGrowth(cur)
            /\ rebound' = TRUE
            /\ pc' = "values"
            /\ UNCHANGED <<op, df, df0, target, err, run, first, scal, winsorize_level, fit>>

PdeAddValues ==
    /\ op = "prepare_data_for_engineering" /\ pc = "values"
    /\ PdeStep("done", PdeFillNumeric(PdeDebtValue(PdeEquityValue(cur))))

NextPrepareData ==
    PdeEnsureDate \/ PdeAddLeverage \/ PdeAddRoa \/ PdeAddRevenueGrowth \/ PdeAddValues

RawTablesOf(n) ==
    { Build(n, [symbol |-> sy, date |-> da, total_debt |-> td, total_assets |-> ta,
                net_income |-> ni, total_revenue |-> tr, total_liabilities |-> tl,
                leverage |-> lv, roa |-> ro, revenue_growth |-> rg]) :
        sy \in {Absent, Pat(<<2, 1>>, n)}, da \in {Absent, [i \in 1..n |-> 1]},
        td \in Opt(<<Num(3)>>, n), ta \in Opt(<<Num(10), Num(0)>>, n),
        ni \in Opt(<<Num(5)>>, n), tr \in Opt(<<Num(7), NaN>>, n),
        tl \in Opt(<<Num(4)>>, n), lv \in Opt(<<Rat(3, 10)>>, n),
        ro \in {Absent, Pat(<<NaN>>, n), Pat(<<Num(50)>>, n)},
        rg \in Opt(<<Num(0)>>, n) }
RawTables == UNION {RawTablesOf(n) : n \in 1..MaxRows}

InitPrepareData ==
    /\ op = "prepare_data_for_engineering"
    /\ pc = "date"
    /\ df \in RawTables
    /\ df0 = df
    /\ cur = df
    /\ target = EmptySeries
    /\ err = "none"
    /\ run = 1
    /\ first = NoResult
    /\ scal = NoScal
    /\ winsorize_level = DefaultLevel
    /\ rebound = FALSE
    /\ fit = NoFit

SpecPrepareData == InitPrepareData /\ [][NextPrepareData]_vars

\* C7: when an operation has returned or raised, the table the caller passed has
\* the columns, rows, row order and values it had before the call.
C7_NoMutation == pc \in {"done", "raised"} => df = df0

----------------------------------------------------------------------------
(* CDSPredictionModel.fit_pooled_ols and fit_fama_macbeth.  A panel is given by
   its cross-sections; a cross-section by how many of its rows have every
   feature and the target (both), every feature but no target (x_only), the
   target but a missing feature (y_only), or neither, and by the coefficients
   (coef) an OLS fit of its complete rows yields for the intercept and for the
   first listed feature; the other features' coefficients are treated alike. *)

MaxPeriods == 2
\* if len(period_data) < 10: continue
MinPeriodObservations == 10

RECURSIVE SumSeq(_)
SumSeq(q) == IF q = <<>> THEN 0 ELSE Head(q) + SumSeq(Tail(q))

PeriodLen(p) == p.both + p.x_only + p.y_only + p.neither
\* len(period_data[feature_cols].dropna()), len(period_data[target_col].dropna())
PeriodX(p) == p.both + p.x_only
PeriodY(p) == p.both + p.y_only
\* sm.OLS(y, X) accepts y and X only when they carry the same index
PeriodAligned(p) == p.x_only = 0 /\ p.y_only = 0

\* len(df[feature_cols + [target_col]].dropna())
CompleteRows(panel) == SumSeq([i \in DOMAIN panel |-> panel[i].both])

\* the cross-sections whose regression contributes a row of coefficients
PeriodFits(p, k) ==
    /\ PeriodLen(p) >= MinPeriodObservations
    /\ PeriodX(p) = PeriodY(p) /\ PeriodX(p) > k
    /\ PeriodAligned(p)
FittedPeriods(panel, k) == {i \in DOMAIN panel : PeriodFits(panel[i], k)}

\* the rows, by kind, that X and y of a fit hold
RowSample(both, x_only, y_only) == [both |-> both, x_only |-> x_only, y_only |-> y_only]
\* a variant of PooledSample that keeps every row with a target
PooledSampleNoFeatureDrop(panel) ==
    [X |-> RowSample(CompleteRows(panel), 0, SumSeq([i \in DOMAIN panel |-> panel[i].y_only])),
     y |-> RowSample(CompleteRows(panel), 0, SumSeq([i \in DOMAIN panel |-> panel[i].y_only]))]
\* X = df_clean[feature_cols], y = df_clean[target_col]
PooledSample(panel) == [X |-> RowSample(CompleteRows(panel), 0, 0),
                        y |-> RowSample(CompleteRows(panel), 0, 0)]
\* X = period_data[feature_cols].dropna(), y = period_data[target_col].dropna()
PeriodSample(p) == [X |-> RowSample(p.both, p.x_only, 0), y |-> RowSample(p.both, 0, p.y_only)]


\* CDSPredictionModel.__init__, with the arguments of the fit call that follows:
\* k listed features over the panel, one of them possibly a duplicate of another,
\* whether linearmodels is installed and whether the table has an
\* (entity, time) MultiIndex
NewModel(model_type, k, panel) ==
    [model_type |-> model_type, k |-> k, panel |-> panel, duplicate |-> FALSE,
     panel_available |-> FALSE, multi_index |-> FALSE,
     model |-> "None", results |-> "None", nobs |-> 0,
     coefficients |-> 0, periods |-> <<>>, sample |-> <<>>, stats |-> <<>>]

StoreFit(f) ==
    /\ fit' = f
    /\ pc' = "done"
    /\ UNCHANGED <<op, df, df0, cur, target, err, run, first, scal, winsorize_level, rebound>>

\* model.fit_pooled_ols(features_df, target_col, all_features)
FitPooledOls ==
    /\ op = "fit_pooled_ols" /\ pc = "call"
    /\ LET n == CompleteRows(fit.panel)
       IN \* statsmodels rejects a design matrix of no rows (zero-size array)
          IF n = 0 THEN Raise("ValueError")
          \* the pseudo-inverse solution has a coefficient for every column of X
          ELSE StoreFit([fit EXCEPT !.model = "OLS", !.results = "RegressionResults", !.nobs = n,
                                    !.coefficients = fit.k,
                                    !.sample = <<PooledSample(fit.panel)>>])

RECURSIVE SumRat(_)
SumRat(q) == IF q = <<>> THEN Num(0) ELSE Add(Head(q), SumRat(Tail(q)))
\* coeffs.mean()
Mean(q) == Div(SumRat(q), Num(Len(q)))
\* a variance with divisor len(coeffs), the population variance
PopulationVar(q) ==
    Div(SumRat([i \in DOMAIN q |-> Mul(Sub(q[i], Mean(q)), Sub(q[i], Mean(q)))]),
        Num(Len(q)))

\* coeffs.std() squared: the sample variance, with divisor len(coeffs) - 1
SampleVar(q) ==
    Div(SumRat([i \in DOMAIN q |-> Mul(Sub(q[i], Mean(q)), Sub(q[i], Mean(q)))]),
        Num(Len(q) - 1))

\* for feature in ['const'] + feature_cols
CoefNames == {"const", "x1"}
\* coef_df[feature].dropna(): one coefficient per fitted cross-section, in period order
PeriodCoeffs(panel, k, feature) ==
    LET used == SortedSeq(FittedPeriods(panel, k))
    IN [j \in DOMAIN used |-> panel[used[j]].coef[feature]]

\* 2 * (1 - stats.t.cdf(abs(t_stat), df)), kept as the distribution it is read from
TwoSidedT(dof) == [distribution |-> "t", dof |-> dof, tails |-> 2]

\* std_error and t_statistic are carried by their squares, which are rational
FamaMacbethStat(coeffs) ==
    LET n == Len(coeffs)
        mean_coeff == Mean(coeffs)
        std_error_sq == Div(SampleVar(coeffs), Num(n))
    IN [coefficient |-> mean_coeff,
        std_error_sq |-> std_error_sq,
        t_statistic_sq |-> Div(Mul(mean_coeff, mean_coeff), std_error_sq),
        p_value |-> TwoSidedT(n - 1),
        observations |-> n]

fama_macbeth_results(panel, k) ==
    [feature \in {f \in CoefNames : Len(PeriodCoeffs(panel, k, f)) > 1} |->
        FamaMacbethStat(PeriodCoeffs(panel, k, feature))]

\* model.fit_fama_macbeth(features_df, target_col, all_features)
FitFamaMacbeth ==
    /\ op = "fit_fama_macbeth" /\ pc = "call"
    /\ LET coefficients == SortedSeq(FittedPeriods(fit.panel, fit.k))
       IN StoreFit([fit EXCEPT !.results = IF Len(coefficients) > 1
                                           THEN "fama_macbeth_results" ELSE "{}",
                               !.nobs = Len(coefficients),
                               !.periods = coefficients,
                               !.sample = [j \in DOMAIN coefficients |->
                                             PeriodSample(fit.panel[coefficients[j]])],
                               !.stats = fama_macbeth_results(fit.panel, fit.k)])

NextFit == FitPooledOls \/ FitFamaMacbeth

\* every cross-section of a panel has at least one row
UnitCoef == [const |-> Num(1), x1 |-> Num(1)]
PeriodChoices ==
    { p \in { [both |-> b, x_only |-> x, y_only |-> y, neither |-> z, coef |-> UnitCoef] :
                b \in {0, 1, 2, MinPeriodObservations - 1, MinPeriodObservations + 2},
                x \in {0, 1}, y \in {0, 1}, z \in {0, 2} } : PeriodLen(p) >= 1 }
Panels == UNION {[1..n -> PeriodChoices] : n \in 1..MaxPeriods}
FeatureCounts == {1, 2, MinPeriodObservations}

InitFit ==
    /\ op \in {"fit_pooled_ols", "fit_fama_macbeth"}
    /\ pc = "call"
    /\ \E k \in FeatureCounts, panel \in Panels, duplicate \in BOOLEAN :
          /\ duplicate => k >= 2
          /\ fit = [NewModel(IF op = "fit_pooled_ols" THEN "pooled_ols" ELSE "fama_macbeth",
                             k, panel) EXCEPT !.duplicate = duplicate]
    /\ df = EmptyTable
    /\ df0 = df
    /\ cur = EmptyTable
    /\ target = EmptySeries
    /\ err = "none"
    /\ run = 1
    /\ first = NoResult
    /\ scal = NoScal
    /\ winsorize_level = DefaultLevel
    /\ rebound = FALSE

SpecFit == InitFit /\ [][NextFit]_vars

\* fewer than number-of-features + 2 complete rows, or no cross-section with at
\* least 10 observations
TooFewObservations ==
    IF op = "fit_pooled_ols" THEN CompleteRows(fit.panel) < fit.k + 2
    ELSE \A i \in DOMAIN fit.panel : PeriodLen(fit.panel[i]) < MinPeriodObservations

\* C10: a fit request with too few observations ends in an error raised to the
\* caller, with no model fitted and no result stored.
C10_InsufficientDataRaises ==
    (op \in {"fit_pooled_ols", "fit_fama_macbeth"} /\ pc \in {"done", "raised"} /\ TooFewObservations)
        => (pc = "raised" /\ fit.model = "None" /\ fit.results = "None")

\* C11: when one listed feature is a perfect duplicate of another, fit_pooled_ols
\* reports it (raises) or drops it, so that the stored result does not carry a
\* coefficient for every listed feature.
C11_DuplicateDetected ==
    (op = "fit_pooled_ols" /\ pc \in {"done", "raised"} /\ fit.duplicate
        /\ CompleteRows(fit.panel) > 0)
        => (pc = "raised" \/ fit.coefficients < fit.k)

FamaMacbethDone == op = "fit_fama_macbeth" /\ pc = "done"
AtLeast(a, b) == IF a >= b THEN a ELSE b
\* the observations a cross-sectional regression is fitted on
SampleSize(smp) == smp.X.both + smp.X.x_only

\* C15: a period contributes a coefficient vector exactly when its regression
\* sample (its complete rows) has at least k+1 and at least 10 observations, and
\* every regression that is used was fitted on at least max(10, k+1) observations.
C15_PeriodUsedIffEnoughRows ==
    FamaMacbethDone =>
        /\ \A i \in DOMAIN fit.panel :
              (i \in Range(fit.periods)) <=>
                  (fit.panel[i].both >= AtLeast(MinPeriodObservations, fit.k + 1))
        /\ \A j \in DOMAIN fit.sample :
              SampleSize(fit.sample[j]) >= AtLeast(MinPeriodObservations, fit.k + 1)

----------------------------------------------------------------------------
(* CDSPredictionModel.fit_panel_fixed_effects, and the three estimators on
   panels with incomplete rows *)

IncompleteRows(panel) == SumSeq([i \in DOMAIN panel |-> PeriodLen(panel[i]) - panel[i].both])

\* PanelOLS needs a two-level index.  OLS(missing='drop') is handed the groups
\* of the undropped table for its clustered covariance: once a row was dropped
\* the lengths differ, and the code does not settle whether the library rejects
\* that, so both outcomes are kept.
PanelFitMayRaise(f) ==
    IF f.panel_available THEN ~f.multi_index \/ CompleteRows(f.panel) = 0
    ELSE IncompleteRows(f.panel) > 0 \/ CompleteRows(f.panel) = 0
PanelFitMayStore(f) ==
    /\ CompleteRows(f.panel) > 0
    /\ f.panel_available => f.multi_index

\* model.fit_panel_fixed_effects(features_df, target_col, all_features): both
\* PanelOLS and OLS(missing='drop') estimate on the rows without a missing value
FitPanelFixedEffects ==
    /\ op = "fit_panel_fixed_effects" /\ pc = "call"
    /\ \/ PanelFitMayRaise(fit) /\ Raise("ValueError")
       \/ /\ PanelFitMayStore(fit)
          /\ StoreFit([fit EXCEPT !.model = IF fit.panel_available THEN "PanelOLS" ELSE "OLS",
                                  !.results = "RegressionResults",
                                  !.nobs = CompleteRows(fit.panel),
                                  !.coefficients = fit.k,
                                  !.sample = <<PooledSample(fit.panel)>>])

NextEstimators == FitPooledOls \/ FitFamaMacbeth \/ FitPanelFixedEffects

MaxCrossSections == 3
EnoughRows == MinPeriodObservations + 2
Period(both, x_only, y_only, neither, const, x1) ==
    [both |-> both, x_only |-> x_only, y_only |-> y_only, neither |-> neither,
     coef |-> [const |-> Num(const), x1 |-> Num(x1)]]
CrossSections ==
    { Period(EnoughRows, 0, 0, 0, 1, -1), Period(EnoughRows, 0, 0, 0, 1, 0),
      Period(EnoughRows, 0, 0, 2, 3, 3), Period(2, 0, 0, 0, 0, 0),
      Period(EnoughRows, 1, 1, 0, 0, 0), Period(EnoughRows, 1, 0, 0, 0, 0),
      Period(MinPeriodObservations - 1, 0, 0, 2, 2, 5) }
EstimatorPanels == UNION {[1..n -> CrossSections] : n \in 1..MaxCrossSections}
ModelTypeOf(o) ==
    CASE o = "fit_pooled_ols" -> "pooled_ols"
      [] o = "fit_fama_macbeth" -> "fama_macbeth"
      [] OTHER -> "panel_fe"

InitEstimators ==
    /\ op \in {"fit_pooled_ols", "fit_fama_macbeth", "fit_panel_fixed_effects"}
    /\ pc = "call"
    /\ \E panel \in EstimatorPanels, available \in BOOLEAN, multi \in BOOLEAN :
          /\ op # "fit_panel_fixed_effects" => (~available /\ ~multi)
          /\ fit = [NewModel(ModelTypeOf(op), 1, panel)
                      EXCEPT !.panel_available = available, !.multi_index = multi]
    /\ df = EmptyTable
    /\ df0 = df
    /\ cur = EmptyTable
    /\ target = EmptySeries
    /\ err = "none"
    /\ run = 1
    /\ first = NoResult
    /\ scal = NoScal
    /\ winsorize_level = DefaultLevel
    /\ rebound = FALSE

SpecEstimators == InitEstimators /\ [][NextEstimators]_vars

EstimatorDone ==
    op \in {"fit_pooled_ols", "fit_fama_macbeth", "fit_panel_fixed_effects"} /\ pc = "done"
\* the complete rows of the cross-sections a stored sample was drawn from
SampleSource(j) ==
    IF op = "fit_fama_macbeth" THEN fit.panel[fit.periods[j]].both
    ELSE CompleteRows(fit.panel)

\* C14: every stored regression sample holds all and only the complete rows of
\* its source (the panel, or the period of a Fama-MacBeth cross-section), the
\* same rows for the features and for the target.
C14_CompleteRowsOnly ==
    EstimatorDone =>
        \A j \in DOMAIN fit.sample :
            /\ fit.sample[j].X = RowSample(SampleSource(j), 0, 0)
            /\ fit.sample[j].y = fit.sample[j].X

C14_IncompleteRowsDropped ==
    /\ EstimatorDone /\ op = "fit_pooled_ols"
    /\ \E i \in DOMAIN fit.panel : fit.panel[i].y_only > 0
    /\ fit.sample # <<>>

\* the per-period coefficients of a feature over the periods that were used
UsedCoeffs(f) == [j \in DOMAIN fit.periods |-> fit.panel[fit.periods[j]].coef[f]]
SquaredDeviations(c, m) == SumRat([j \in DOMAIN c |-> Mul(Sub(c[j], m), Sub(c[j], m))])

-----------------------------------------------------------------------------
(* CDSPredictionModel.extract_feature_importance *)

\* the marker of the Fama-MacBeth branch
SignificanceInclusive(p) ==
    IF Le(p, Rat(1, 100)) THEN "***"
    ELSE IF Le(p, Rat(1, 20)) THEN "**"
    ELSE IF Le(p, Rat(1, 10)) THEN "*" ELSE ""

\* '***' if stats['p_value'] < 0.01 else '**' if ... < 0.05 else '*' if ... < 0.10 else ''
SignificanceFamaMacbeth(p) ==
    IF Lt(p, Rat(1, 100)) THEN "***"
    ELSE IF Lt(p, Rat(1, 20)) THEN "**"
    ELSE IF Lt(p, Rat(1, 10)) THEN "*" ELSE ""

\* '***' if pvalues[feature] < 0.01 else '**' if ... < 0.05 else '*' if ... < 0.10 else ''
SignificanceOls(p) ==
    IF Lt(p, Rat(1, 100)) THEN "***"
    ELSE IF Lt(p, Rat(1, 20)) THEN "**"
    ELSE IF Lt(p, Rat(1, 10)) THEN "*" ELSE ""

\* isinstance(self.results, dict)
IsDict(results) == results \in {"fama_macbeth_results", "{}"}

\* the order of self.results.items() / params.index
ParamOrder == <<"const", "x1", "x2", "entity_1">>
ParamIndex(f) == SelectSeq(ParamOrder, LAMBDA name : name \in DOMAIN f.stats)

IsEntityDummy(name) == name = "entity_1"

ImportanceRowFamaMacbeth(feature, stats) ==
    [feature |-> feature, coefficient |-> stats.coefficient, std_error |-> stats.std_error,
     t_statistic |-> stats.t_statistic, p_value |-> stats.p_value,
     significance |-> SignificanceFamaMacbeth(stats.p_value)]

ImportanceRowOls(feature, stats) ==
    [feature |-> feature, coefficient |-> stats.coefficient, std_error |-> stats.std_error,
     t_statistic |-> Div(stats.coefficient, stats.std_error), p_value |-> stats.p_value,
     significance |-> SignificanceOls(stats.p_value)]

importance_data(f) ==
    IF IsDict(f.results)
    THEN LET kept == SelectSeq(ParamIndex(f), LAMBDA name : name # "const")
         IN [i \in DOMAIN kept |-> ImportanceRowFamaMacbeth(kept[i], f.stats[kept[i]])]
    ELSE LET kept == SelectSeq(ParamIndex(f),
                               LAMBDA name : name # "const" /\ ~IsEntityDummy(name))
         IN [i \in DOMAIN kept |-> ImportanceRowOls(kept[i], f.stats[kept[i]])]

ImportanceColumns == {"feature", "coefficient", "std_error", "t_statistic", "p_value",
                      "significance"}
\* pd.DataFrame(importance_data)
ImportanceFrame(rows) ==
    Table(RangeIndex(Len(rows)),
          [c \in ImportanceColumns |-> [i \in DOMAIN rows |-> rows[i][c]]])

\* an order sort_values('p_value') may produce: ascending, missing values last;
\* the default sort is not stable, so rows with equal keys come in any order
OrdersByPValue(t, perm) ==
    LET n == NRows(t)
        key == t.col["p_value"]
    IN /\ \A i, j \in 1..n : i # j => perm[i] # perm[j]
       /\ \A i, j \in 1..n :
             i < j => \/ IsNaN(key[perm[j]])
                      \/ NotNa(key[perm[i]]) /\ Le(key[perm[i]], key[perm[j]])

\* model.extract_feature_importance()
ExtractFeatureImportance ==
    /\ op = "extract_feature_importance" /\ pc = "call"
    /\ IF fit.results = "None" THEN Step("done", EmptyTable)
       ELSE IF importance_data(fit) = <<>> THEN Raise("KeyError")
       ELSE LET importance_df == ImportanceFrame(importance_data(fit))
            IN \E perm \in [1..NRows(importance_df) -> 1..NRows(importance_df)] :
                  /\ OrdersByPValue(importance_df, perm)
                  /\ Step("done", Permute(importance_df, perm))

NextImportance == ExtractFeatureImportance

PValues == {Num(0), Rat(1, 200), Rat(1, 100), Rat(3, 100), Rat(1, 20), Rat(7, 100),
            Rat(1, 10), Rat(1, 2), Num(1), NaN}
FeatureStat(p) ==
    [coefficient |-> Num(1), std_error |-> Num(2), t_statistic |-> Rat(1, 2), p_value |-> p]
FittedResults(model_type) ==
    IF model_type = "fama_macbeth" THEN {"fama_macbeth_results", "{}"}
    ELSE {"RegressionResults"}
FittedStats(results) ==
    IF results = "{}" THEN {<<>>}
    ELSE {[name \in names |-> FeatureStat(IF name = "const" THEN Rat(1, 2) ELSE ps[name])] :
             names \in {{"const"}, {"const", "x1"}, {"const", "x1", "x2"},
                        {"const", "x1", "x2", "entity_1"}},
             ps \in [{"x1", "x2", "entity_1"} -> PValues]}

InitImportance ==
    /\ op = "extract_feature_importance"
    /\ pc = "call"
    /\ \E model_type \in {"pooled_ols", "panel_fe", "fama_macbeth"} :
          \/ fit = NewModel(model_type, 2, <<>>)
          \/ \E results \in FittedResults(model_type) :
                \E stats \in FittedStats(results) :
                   fit = [NewModel(model_type, 2, <<>>)
                             EXCEPT !.results = results, !.stats = stats]
    /\ df = EmptyTable
    /\ df0 = df
    /\ cur = EmptyTable
    /\ target = EmptySeries
    /\ err = "none"
    /\ run = 1
    /\ first = NoResult
    /\ scal = NoScal
    /\ winsorize_level = DefaultLevel
    /\ rebound = FALSE

SpecImportance == InitImportance /\ [][NextImportance]_vars

ImportanceDone == op = "extract_feature_importance" /\ pc = "done"
Between(lo, p, hi) == Le(lo, p) /\ Lt(p, hi)

\* C13: in the feature-importance table of each estimator a feature's marker is
\* '***' iff p < 0.01, '**' iff 0.01 <= p < 0.05, '*' iff 0.05 <= p < 0.10 and
\* empty otherwise, so the marker depends on the p-value only.
C13_SignificanceMarkers ==
    ImportanceDone =>
        \A i \in 1..NRows(cur) :
            LET p == cur.col["p_value"][i]
                marker == cur.col["significance"][i]
            IN /\ marker \in {"***", "**", "*", ""}
               /\ marker = "***" <=> Lt(p, Rat(1, 100))
               /\ marker = "**" <=> Between(Rat(1, 100), p, Rat(1, 20))
               /\ marker = "*" <=> Between(Rat(1, 20), p, Rat(1, 10))

C13_BoundaryPValuesMarked ==
    /\ ImportanceDone
    /\ fit.model_type = "fama_macbeth"
    /\ NRows(cur) = 3
    /\ cur.col["p_value"] = <<Rat(1, 100), Rat(1, 20), Rat(1, 10)>>
    /\ cur.col["significance"] = <<"**", "*", "">>

-----------------------------------------------------------------------------
(* Claims about create_macroeconomic_features *)

\* the grades in the order the lookup table lists them
RatingOrder == <<"AAA", "AA+", "AA", "AA-", "A+", "A", "A-", "BBB+", "BBB", "BBB-",
                 "BB+", "BB", "BB-", "B+", "B", "B-", "CCC+", "CCC", "CCC-", "CC", "C", "D">>
Rank(g) == (CHOOSE i \in DOMAIN RatingOrder : RatingOrder[i] = g) - 1

\* create_macroeconomic_features has returned and cur is its result
MacroReturned ==
    op = "prepare_model_features" /\ pc = "rolling" /\ Has(cur, "credit_rating_numeric")

\* C17: the lookup table has 21 grades; a listed grade maps to its rank over 20
\* (equal steps from AAA = 0.000 to D = 1.000, to the table's 3 decimals), a
\* value in [0, 1]; a rating the table lacks maps to missing.
C17_LinearRatingScale ==
    MacroReturned =>
        /\ Cardinality(DOMAIN rating_map) = 21
        /\ \A i \in 1..NRows(cur) :
              LET g == cur.col["credit_rating"][i]
                  v == cur.col["credit_rating_numeric"][i]
              IN IF g \in DOMAIN rating_map
                 THEN /\ Le(Num(0), v) /\ Le(v, Num(1))
                      /\ v = Round(Rat(Rank(g), 20), 3)
                 ELSE IsNaN(v)

-----------------------------------------------------------------------------
(* ModelValidation.time_series_split_validation *)

\* The table is held by date: df[d] counts the rows dated in year d by kind
\* (features and target present, features only, target only, neither).

\* the date of an empty column: NaT compares false with every date
NaT == 0
Dates(data) == {d \in DOMAIN data : PeriodLen(data[d]) > 0}
\* df_sorted[time_col].min(), df_sorted[time_col].max()
MinDate(data) ==
    IF Dates(data) = {} THEN NaT ELSE CHOOSE d \in Dates(data) : \A e \in Dates(data) : d <= e
MaxDate(data) ==
    IF Dates(data) = {} THEN NaT ELSE CHOOSE d \in Dates(data) : \A e \in Dates(data) : e <= d
\* date + pd.DateOffset(years=n)
DateOffset(date, years) == IF date = NaT THEN NaT ELSE date + years

\* the dates d of the table with lo <= d < hi
DatesWithin(data, lo, hi) == {d \in DOMAIN data : lo <= d /\ d < hi}
RowsOf(data, dates) ==
    LET order == SortedSeq(dates) IN [i \in DOMAIN order |-> data[order[i]]]
\* a variant of the train mask that lets the boundary date in
TrainDatesThrough(data, train_end) == {d \in DOMAIN data : d <= train_end}
\* df_sorted[time_col] < train_end
TrainDates(data, train_end) == {d \in DOMAIN data : d < train_end}
\* df_sorted[df_sorted[time_col] < train_end]
train_data(data, train_end) == RowsOf(data, TrainDates(data, train_end))
\* df_sorted[(df_sorted[time_col] >= test_start) & (df_sorted[time_col] < test_end)]
test_data(data, test_start, test_end) == RowsOf(data, DatesWithin(data, test_start, test_end))

\* len(frame)
RowCount(panel) == SumSeq([i \in DOMAIN panel |-> PeriodLen(panel[i])])
\* len(X_test), len(y_test)
XTestRows(panel) == SumSeq([i \in DOMAIN panel |-> PeriodX(panel[i])])
YTestRows(panel) == SumSeq([i \in DOMAIN panel |-> PeriodY(panel[i])])

\* The rows of a frame, one name <<period, kind, k>> each, in frame order.
\* Rows of one date are taken kind by kind: sort_values leaves their order open,
\* and the rows a dropna keeps do not depend on it.
KindRows(i, kind, n) == [k \in 1..n |-> <<i, kind, k>>]
PeriodRows(panel, i) ==
    KindRows(i, "both", panel[i].both) \o KindRows(i, "x_only", panel[i].x_only)
        \o KindRows(i, "y_only", panel[i].y_only) \o KindRows(i, "neither", panel[i].neither)
RECURSIVE FrameRows(_, _)
FrameRows(panel, n) ==
    IF n = 0 THEN <<>> ELSE FrameRows(panel, n - 1) \o PeriodRows(panel, n)
\* test_data[feature_cols].dropna(): the rows y_pred has one prediction for
XTestIndex(panel) ==
    SelectSeq(FrameRows(panel, Len(panel)), LAMBDA r : r[2] \in {"both", "x_only"})
\* test_data[target_col].dropna(): the rows of y_test
YTestIndex(panel) ==
    SelectSeq(FrameRows(panel, Len(panel)), LAMBDA r : r[2] \in {"both", "y_only"})

MinTrainRows == 100
MinTestRows == 20

\* while current_date + pd.DateOffset(years=test_years) <= max_date
LoopCondition(s, data) ==
    /\ s.current_date # NaT
    /\ DateOffset(s.current_date, s.test_years) <= MaxDate(data)

\* CDSPredictionModel('pooled_ols') after fit_pooled_ols(data, target_col, feature_cols)
FittedPooledOls(k, panel) ==
    [NewModel("pooled_ols", k, panel)
        EXCEPT !.model = "OLS", !.results = "RegressionResults",
               !.nobs = CompleteRows(panel), !.coefficients = k,
               !.sample = <<PooledSample(panel)>>]

\* the entry appended for a window: its metrics are computed on the test rows
WindowMetrics(s, data, test) ==
    [observations |-> YTestRows(test),
     train_period |-> <<MinDate(data), s.current_date>>,
     test_period |-> <<s.current_date, DateOffset(s.current_date, s.test_years)>>]

NewValidation(train_years, test_years) ==
    [train_years |-> train_years, test_years |-> test_years, current_date |-> NaT,
     validation_results |-> <<>>, windows |-> <<>>, result |-> "None"]

\* df_sorted, min_date, max_date, validation_results = [], current_date
TsStart ==
    /\ op = "time_series_split_validation" /\ pc = "call"
    /\ scal' = [scal EXCEPT !.current_date = DateOffset(MinDate(df), scal.train_years)]
    /\ pc' = "loop"
    /\ UNCHANGED <<op, df, df0, cur, target, err, run, first, winsorize_level, rebound, fit>>

\* one pass of the while loop
TsWindow ==
    /\ op = "time_series_split_validation" /\ pc = "loop"
    /\ LoopCondition(scal, df)
    /\ LET train_end == scal.current_date
           test_start == scal.current_date
           test_end == DateOffset(scal.current_date, scal.test_years)
           train == train_data(df, train_end)
           test == test_data(df, test_start, test_end)
           entered == RowCount(train) > MinTrainRows /\ RowCount(test) > MinTestRows
           appended == entered /\ XTestRows(test) = YTestRows(test) /\ YTestRows(test) > 0
           split == [test_start |-> test_start,
                     train_dates |-> Dates(df) \cap TrainDates(df, train_end),
                     test_dates |-> Dates(df) \cap DatesWithin(df, test_start, test_end),
                     train_rows |-> RowCount(train), test_rows |-> RowCount(test),
                     fitted |-> entered, appended |-> appended]
       IN IF entered /\ CompleteRows(train) = 0 THEN Raise("ValueError")
          ELSE /\ scal' = [scal EXCEPT
                              !.validation_results =
                                  IF appended THEN Append(@, WindowMetrics(scal, df, test)) ELSE @,
                              !.windows = Append(@, split),
                              !.current_date = DateOffset(@, 1)]
               /\ fit' = IF entered THEN FittedPooledOls(1, train) ELSE fit
               /\ UNCHANGED <<op, pc, df, df0, cur, target, err, run, first, winsorize_level,
                              rebound>>

\* return {'individual_results': validation_results, 'average_r2': np.mean([...]), ...}
TsReturn ==
    /\ op = "time_series_split_validation" /\ pc = "loop"
    /\ ~LoopCondition(scal, df)
    /\ scal' = [scal EXCEPT !.result =
                   [individual_results |-> scal.validation_results,
                    averages |-> IF scal.validation_results = <<>> THEN "nan" ELSE "mean"]]
    /\ pc' = "done"
    /\ UNCHANGED <<op, df, df0, cur, target, err, run, first, winsorize_level, rebound, fit>>

MaxYears == 4
YearRows(both, x_only, y_only) == Period(both, x_only, y_only, 0, 1, 1)
YearChoices ==
    { YearRows(0, 0, 0),
      YearRows(MinTrainRows + 1, 0, 0), YearRows(MinTrainRows, 0, 0),
      YearRows(MinTestRows + 1, 0, 0), YearRows(MinTestRows, 0, 0),
      YearRows(0, MinTrainRows + 1, 0), YearRows(MinTestRows + 1, 0, 1),
      YearRows(MinTestRows - 1, 1, 1) }
YearPanels == [1..MaxYears -> YearChoices]

-----------------------------------------------------------------------------
(* ModelValidation.robustness_tests *)

winsorization_levels == <<Rat(1, 200), Rat(1, 100), Rat(1, 40)>>

\* the feature names of the model, and which of them contain a given word
FeatureOrder == <<"roa", "equity_volatility", "stock_return">>
ContainsVolatility(f) == f \in {"equity_volatility"}
ContainsReturn(f) == f \in {"stock_return"}

\* the dictionary feature_subsets, in insertion order
feature_subsets(feature_cols) ==
    <<[subset |-> "accounting_only",
       features |-> SelectSeq(feature_cols,
                              LAMBDA f : f \in {"roa", "leverage", "revenue_growth"})],
      [subset |-> "market_only",
       features |-> SelectSeq(feature_cols,
                              LAMBDA f : ContainsVolatility(f) \/ ContainsReturn(f))],
      [subset |-> "full_model", features |-> feature_cols]>>

\* the rows of a table by kind, for a target and a list of features
TablePanel(t, y, features) ==
    LET XOk(i) == \A j \in DOMAIN features : NotNa(t.col[features[j]][i])
        YOk(i) == NotNa(t.col[y][i])
        rows == 1..NRows(t)
    IN <<[both |-> Cardinality({i \in rows : XOk(i) /\ YOk(i)}),
          x_only |-> Cardinality({i \in rows : XOk(i) /\ ~YOk(i)}),
          y_only |-> Cardinality({i \in rows : ~XOk(i) /\ YOk(i)}),
          neither |-> Cardinality({i \in rows : ~XOk(i) /\ ~YOk(i)}),
          coef |-> UnitCoef]>>

NewRobustness(feature_cols, importable) ==
    [feature_cols |-> feature_cols, importable |-> importable,
     winsor_results |-> <<>>, subset |-> 1, subset_results |-> <<>>, results |-> <<>>]

\* one pass of: for level in winsorization_levels
RtLevel ==
    /\ op = "robustness_tests" /\ pc = "winsorization"
    /\ LET level == winsorization_levels[Len(scal.winsor_results) + 1]
           df_winsorized == winsorize_variables(df, level)
           panel == TablePanel(df_winsorized, target_col, scal.feature_cols)
           winsor_results == Append(scal.winsor_results,
                                    [winsorization_level |-> level,
                                     r_squared |-> "rsquared", aic |-> "aic"])
           last == Len(winsor_results) = Len(winsorization_levels)
       IN \* from feature_engineering.AcademicFeatureEngineer import ...
          IF ~scal.importable THEN Raise("ModuleNotFoundError")
          ELSE IF CompleteRows(panel) = 0 THEN Raise("ValueError")
          ELSE /\ winsorize_level' = level
               /\ cur' = df_winsorized
               /\ fit' = FittedPooledOls(Len(scal.feature_cols), panel)
               /\ scal' = [scal EXCEPT
                              !.winsor_results = winsor_results,
                              !.results = IF last THEN [winsorization_tests |-> winsor_results]
                                          ELSE @]
               /\ pc' = IF last THEN "subsets" ELSE pc
               /\ UNCHANGED <<op, df, df0, target, err, run, first, rebound>>

\* one pass of: for subset_name, subset_features in feature_subsets.items()
RtSubset ==
    /\ op = "robustness_tests" /\ pc = "subsets"
    /\ LET entry == feature_subsets(scal.feature_cols)[scal.subset]
           panel == TablePanel(df, target_col, entry.features)
           fits == Len(entry.features) > 0
           subset_results ==
               IF fits THEN Append(scal.subset_results,
                                   [subset |-> entry.subset, features |-> Len(entry.features),
                                    r_squared |-> "rsquared", aic |-> "aic"])
               ELSE scal.subset_results
           last == scal.subset = Len(feature_subsets(scal.feature_cols))
       IN IF fits /\ CompleteRows(panel) = 0 THEN Raise("ValueError")
          ELSE /\ fit' = IF fits THEN FittedPooledOls(Len(entry.features), panel) ELSE fit
               /\ scal' = [scal EXCEPT
                              !.subset = @ + 1,
                              !.subset_results = subset_results,
                              !.results = IF last
                                          THEN [winsorization_tests |-> scal.winsor_results,
                                                feature_subset_tests |-> subset_results]
                                          ELSE @]
               /\ pc' = IF last THEN "done" ELSE pc
               /\ UNCHANGED <<op, df, df0, cur, target, err, run, first, winsorize_level,
                              rebound>>

NextValidation == TsStart \/ TsWindow \/ TsReturn \/ RtLevel \/ RtSubset

FeatureLists ==
    { SelectSeq(FeatureOrder, LAMBDA f : f \in S) : S \in (SUBSET Range(FeatureOrder)) \ {{}} }
RobustnessCells == {<<Num(1), Num(3)>>, <<NaN, Num(2)>>, <<NaN>>}
RobustnessTablesOf(n) ==
    { Build(n, [roa |-> Pat(ro, n), equity_volatility |-> Pat(vol, n),
                stock_return |-> Pat(ret, n), cds_spread |-> Pat(cds, n)]) :
        ro \in RobustnessCells, vol \in RobustnessCells, ret \in RobustnessCells,
        cds \in RobustnessCells }
RobustnessTables == UNION {RobustnessTablesOf(n) : n \in 1..MaxRows}

InitValidation ==
    /\ \/ /\ op = "time_series_split_validation"
          /\ pc = "call"
          /\ df \in YearPanels
          /\ \E train_years \in 1..2, test_years \in 1..2 :
                scal = NewValidation(train_years, test_years)
       \/ /\ op = "robustness_tests"
          /\ pc = "winsorization"
          /\ df \in RobustnessTables
          /\ \E feature_cols \in FeatureLists, importable \in BOOLEAN :
                scal = NewRobustness(feature_cols, importable)
    /\ df0 = df
    /\ cur = EmptyTable
    /\ target = EmptySeries
    /\ err = "none"
    /\ run = 1
    /\ first = NoResult
    /\ winsorize_level = DefaultLevel
    /\ rebound = FALSE
    /\ fit = NoFit

SpecValidation == InitValidation /\ [][NextValidation]_vars

-----------------------------------------------------------------------------
(* Claims about ModelValidation *)

RobustnessDone == op = "robustness_tests" /\ pc = "done"

\* C12: when robustness_tests returns, winsorization_tests has exactly one entry
\* for each of the levels 0.005, 0.01, 0.025 and feature_subset_tests exactly one
\* for each of accounting_only, market_only, full_model (the feature list passed
\* in is never empty here).
C12_OneEntryPerConfiguration ==
    RobustnessDone =>
        /\ [i \in DOMAIN scal.results.winsorization_tests |->
               scal.results.winsorization_tests[i].winsorization_level]
              = <<Rat(1, 200), Rat(1, 100), Rat(1, 40)>>
        /\ [i \in DOMAIN scal.results.feature_subset_tests |->
               scal.results.feature_subset_tests[i].subset]
              = <<"accounting_only", "market_only", "full_model">>

SplitRunning == op = "time_series_split_validation" /\ pc \in {"loop", "done"}

\* C18: a fitted window trains on exactly the dates within train_years before
\* its test start and tests on exactly the dates within the test_years after it;
\* the first window's test starts train_years after the first date, each window
\* starts one year after the one before, and windows are taken until the test
\* window would end after the last date.
C18_RollingTrainWindow ==
    SplitRunning =>
        /\ \A j \in DOMAIN scal.windows :
              LET w == scal.windows[j]
              IN /\ w.fitted =>
                       /\ w.train_dates = Dates(df) \cap
                              DatesWithin(df, w.test_start - scal.train_years, w.test_start)
                       /\ w.test_dates = Dates(df) \cap
                              DatesWithin(df, w.test_start, w.test_start + scal.test_years)
                 /\ w.test_start = MinDate(df) + scal.train_years + (j - 1)
                 /\ w.test_start + scal.test_years <= MaxDate(df)
        /\ pc = "done" /\ MinDate(df) # NaT =>
              MinDate(df) + scal.train_years + Len(scal.windows) + scal.test_years > MaxDate(df)

\* C19: a window yields an entry of individual_results iff it has at least 100
\* train rows and at least 20 test rows, and it yields one entry only.
C19_SkippedIffTooFewRows ==
    SplitRunning =>
        /\ \A j \in DOMAIN scal.windows :
              scal.windows[j].appended <=>
                  (scal.windows[j].train_rows >= MinTrainRows
                      /\ scal.windows[j].test_rows >= MinTestRows)
        /\ Len(scal.validation_results)
              = Cardinality({j \in DOMAIN scal.windows : scal.windows[j].appended})

\* C20: neither call ends by raising the error of a fit that failed.
C20_FailingFitSkipped ==
    op \in {"time_series_split_validation", "robustness_tests"} =>
        ~(pc = "raised" /\ err = "ValueError")

-----------------------------------------------------------------------------
(* The life of one CDSPredictionModel: fits and the methods that read them *)

FitMethods == {"fit_pooled_ols", "fit_fama_macbeth", "fit_panel_fixed_effects"}
ReadMethods == {"predict", "extract_feature_importance", "calculate_performance_metrics",
                "conduct_diagnostic_tests", "generate_model_summary"}

\* hasattr(self.results, 'resid') and hasattr(self.results, 'fittedvalues'): a
\* statsmodels result has both, None and a dictionary have neither; whether a
\* linearmodels result has them is left open
MayHaveResiduals(f) == f.results = "RegressionResults"
MayLackResiduals(f) == f.results # "RegressionResults" \/ f.model = "PanelOLS"

\* len(df[feature_cols].dropna())
DiagnosticRows(panel) == SumSeq([i \in DOMAIN panel |-> PeriodX(panel[i])])

\* a report that stops at the first test that cannot be computed
DiagnosticKeysUntilFailure(has_residuals, breusch_pagan) ==
    IF ~has_residuals THEN {}
    ELSE IF breusch_pagan
    THEN {"durbin_watson", "breusch_pagan_stat", "breusch_pagan_p_value",
          "jarque_bera_stat", "jarque_bera_p_value"}
    ELSE {"durbin_watson"}

\* the keys of diagnostics
DiagnosticKeys(has_residuals, breusch_pagan) ==
    IF ~has_residuals THEN {}
    ELSE {"durbin_watson"}
         \cup (IF breusch_pagan THEN {"breusch_pagan_stat", "breusch_pagan_p_value"} ELSE {})
         \cup {"jarque_bera_stat", "jarque_bera_p_value"}

NewLife ==
    [calls |-> 0, last_fit |-> "none", before |-> [model |-> "None", results |-> "None"],
     feature_importance |-> "None", has_residuals |-> FALSE, breusch_pagan |-> FALSE,
     diagnostics |-> {}]

Finish(s) ==
    /\ scal' = s
    /\ pc' = "done"
    /\ UNCHANGED <<op, df, df0, cur, target, err, run, first, winsorize_level, rebound, fit>>

\* the fit that completed last
LastFit == IF op \in FitMethods /\ pc = "done" THEN op ELSE scal.last_fit

MaxCalls == 3
LifePanels ==
    { <<Period(EnoughRows, 0, 0, 0, 1, 1)>>, <<Period(0, 1, 0, 0, 1, 1)>>,
      <<Period(EnoughRows, 1, 0, 0, 1, 1)>>,
      <<Period(EnoughRows, 0, 0, 0, 1, -1), Period(EnoughRows, 0, 0, 0, 1, 0)>> }

\* the methods that take a table
TableMethods == FitMethods \cup {"conduct_diagnostic_tests"}

\* the caller invokes the next method of the object, with its arguments
LifeCall ==
    /\ pc \in {"idle", "done", "raised"}
    /\ scal.calls < MaxCalls
    /\ \E method \in FitMethods \cup ReadMethods, panel \in LifePanels :
          /\ op' = method
          /\ fit' = [fit EXCEPT !.panel = IF method \in TableMethods THEN panel ELSE @]
    /\ pc' = "call"
    /\ err' = "none"
    /\ scal' = [scal EXCEPT !.calls = @ + 1, !.last_fit = LastFit,
                            !.before = [model |-> fit.model, results |-> fit.results]]
    /\ UNCHANGED <<df, df0, cur, target, run, first, winsorize_level, rebound>>

\* model.predict(X)
Predict ==
    /\ op = "predict" /\ pc = "call"
    /\ IF fit.model = "None" THEN Raise("Model must be fitted")
       \* self.model.predict(X) hands X to the library as the parameter vector:
       \* it returns or fails on the shapes
       ELSE Finish(scal) \/ Raise("ValueError")

\* model.extract_feature_importance(): the rows of the table are the features
\* of the result other than the constant
ImportanceOfFit ==
    /\ op = "extract_feature_importance" /\ pc = "call"
    /\ IF fit.results = "None" THEN Finish(scal)
       ELSE IF IsDict(fit.results) /\ DOMAIN fit.stats \ {"const"} = {} THEN Raise("KeyError")
       ELSE Finish([scal EXCEPT !.feature_importance = "DataFrame"])

\* model.calculate_performance_metrics(y_true, y_pred)
PerformanceMetrics ==
    /\ op = "calculate_performance_metrics" /\ pc = "call"
    /\ \/ Raise("ValueError")    \* r2_score rejects the two arrays
       \/ IF fit.results # "RegressionResults" THEN Raise("AttributeError")
          ELSE Finish(scal)

\* model.conduct_diagnostic_tests(df, feature_cols)
ConductDiagnosticTests ==
    /\ op = "conduct_diagnostic_tests" /\ pc = "call"
    /\ \E has_residuals \in BOOLEAN, breusch_pagan \in BOOLEAN :
          /\ has_residuals => MayHaveResiduals(fit)
          /\ ~has_residuals => MayLackResiduals(fit)
          \* het_breuschpagan needs as many rows of X as there are residuals
          /\ breusch_pagan => has_residuals /\ DiagnosticRows(fit.panel) = fit.nobs
          /\ Finish([scal EXCEPT !.has_residuals = has_residuals,
                                 !.breusch_pagan = breusch_pagan,
                                 !.diagnostics = DiagnosticKeys(has_residuals, breusch_pagan)])

\* model.generate_model_summary()
GenerateModelSummary ==
    /\ op = "generate_model_summary" /\ pc = "call"
    /\ \/ Finish(scal)
       \* self.results.summary(): summary is not a method of a linearmodels result
       \/ fit.model = "PanelOLS" /\ fit.results = "RegressionResults" /\ Raise("TypeError")

NextLife ==
    \/ LifeCall
    \/ FitPooledOls \/ FitFamaMacbeth \/ FitPanelFixedEffects
    \/ Predict \/ ImportanceOfFit \/ PerformanceMetrics \/ ConductDiagnosticTests
    \/ GenerateModelSummary

InitLife ==
    /\ op = "__init__"
    /\ pc = "idle"
    /\ \E model_type \in {"panel_fe", "pooled_ols", "fama_macbeth"},
          available \in BOOLEAN, multi \in BOOLEAN :
          fit = [NewModel(model_type, 1, <<>>)
                    EXCEPT !.panel_available = available, !.multi_index = multi]
    /\ scal = NewLife
    /\ df = EmptyTable
    /\ df0 = df
    /\ cur = EmptyTable
    /\ target = EmptySeries
    /\ err = "none"
    /\ run = 1
    /\ first = NoResult
    /\ winsorize_level = DefaultLevel
    /\ rebound = FALSE

SpecLife == InitLife /\ [][NextLife]_vars

-----------------------------------------------------------------------------
(* Claims about the life of a CDSPredictionModel *)

DiagnosticsEnded == op = "conduct_diagnostic_tests" /\ pc \in {"done", "raised"}

\* C21: conduct_diagnostic_tests never raises; without residuals (a Fama-MacBeth
\* result) its report is empty; with residuals the Durbin-Watson and Jarque-Bera
\* entries are reported, and the Breusch-Pagan entries exactly when that test
\* could be computed.
C21_DiagnosticsNeverRaise ==
    DiagnosticsEnded =>
        /\ pc = "done"
        /\ IsDict(fit.results) => scal.diagnostics = {}
        /\ ~scal.has_residuals => scal.diagnostics = {}
        /\ scal.has_residuals =>
              /\ {"durbin_watson", "jarque_bera_stat", "jarque_bera_p_value"}
                    \subseteq scal.diagnostics
              /\ scal.breusch_pagan <=>
                    {"breusch_pagan_stat", "breusch_pagan_p_value"} \subseteq scal.diagnostics
              /\ ~scal.breusch_pagan =>
                    scal.diagnostics \cap {"breusch_pagan_stat", "breusch_pagan_p_value"} = {}

C21_BreuschPaganOmitted ==
    /\ DiagnosticsEnded
    /\ scal.has_residuals
    /\ DiagnosticRows(fit.panel) # fit.nobs
    /\ scal.diagnostics = {"durbin_watson", "jarque_bera_stat", "jarque_bera_p_value"}

\* the model and the results a fit method assigns
ModelOf(method) ==
    CASE method = "fit_pooled_ols" -> {"OLS"}
      [] method = "fit_panel_fixed_effects" -> {"PanelOLS", "OLS"}
      [] method = "fit_fama_macbeth" -> {"None"}
ResultsOf(method) ==
    CASE method = "fit_fama_macbeth" -> {"fama_macbeth_results", "{}"}
      [] OTHER -> {"RegressionResults"}

\* C30: once a fit has completed, model and results are those of the fit that
\* completed last (a Fama-MacBeth fit has no model object); predict raises
\* 'Model must be fitted' only if no fit has completed; and the five reading
\* methods leave model and results as they found them.
C30_FieldsOfLastFit ==
    /\ LastFit # "none" =>
          fit.model \in ModelOf(LastFit) /\ fit.results \in ResultsOf(LastFit)
    /\ (op = "predict" /\ pc = "raised" /\ err = "Model must be fitted") => LastFit = "none"
    /\ (op \in ReadMethods /\ pc \in {"done", "raised"}) =>
          fit.model = scal.before.model /\ fit.results = scal.before.results

-----------------------------------------------------------------------------
(* prepare_model_features on tables that supply ratio columns of their own *)

AuthoritativePanelsOf(n) ==
    { Build(n, [symbol |-> Pat(<<1, 2>>, n), roa |-> ro, leverage |-> lv,
                net_income |-> ni, total_assets |-> ta, total_debt |-> td,
                cds_spread |-> cds, risk_score |-> rs]) :
        ro \in Opt(<<Num(7), NaN>>, n), lv \in Opt(<<Rat(1, 2)>>, n),
        ni \in Opt(<<Num(5)>>, n), ta \in Opt(<<Num(10)>>, n), td \in Opt(<<Num(3)>>, n),
        cds \in Opt(<<Num(5)>>, n), rs \in Opt(<<Rat(1, 2)>>, n) }
AuthoritativePanels == UNION {AuthoritativePanelsOf(n) : n \in 1..MaxRows}

InitAuthoritative ==
    /\ op = "prepare_model_features"
    /\ pc = "prepare"
    /\ df \in AuthoritativePanels
    /\ df0 = df
    /\ cur = EmptyTable
    /\ target = EmptySeries
    /\ err = "none"
    /\ run = 1
    /\ first = NoResult
    /\ scal = NoScal
    /\ winsorize_level = DefaultLevel
    /\ rebound = FALSE
    /\ fit = NoFit

SpecAuthoritative == InitAuthoritative /\ [][NextPipeline]_vars

AuthoritativeFields == {"roa", "leverage", "current_ratio", "revenue_growth",
                        "equity_value", "debt_value"}
\* the stages between the preparer and the winsorizer have run up to here
BeforeWinsorize ==
    op = "prepare_model_features"
        /\ pc \in {"accounting", "market", "macro", "rolling", "interaction", "winsorize"}

\* C22: a non-missing value of a roa, leverage, current_ratio, revenue_growth,
\* equity_value or debt_value column that the input table supplies is still the
\* value of that row after the preparer and the feature stages.
C22_AuthoritativeKept ==
    BeforeWinsorize =>
        \A c \in AuthoritativeFields \cap Cols(df) :
            \A i \in 1..NRows(cur) :
                NotNa(InputCell(c, cur.idx[i])) => cur.col[c][i] = InputCell(c, cur.idx[i])

-----------------------------------------------------------------------------
(* Claims about the order of periods *)

\* _prepare_database_fields has returned and cur is its result
PrepareReturned == op = "prepare_model_features" /\ pc = "accounting"

\* the rows of the caller's table that precede row r in time within its entity
EarlierPeriods(r) ==
    {q \in 1..NRows(df) : df.col["symbol"][q] = df.col["symbol"][r]
                             /\ df.col["date"][q] < df.col["date"][r]}
\* the latest of them
PrecedingPeriod(r) ==
    CHOOSE q \in EarlierPeriods(r) :
        \A o \in EarlierPeriods(r) : df.col["date"][o] <= df.col["date"][q]
\* the percent change of column c from the preceding period to row r
PercentChange(c, r) ==
    Mul(Sub(Div(df.col[c][r], df.col[c][PrecedingPeriod(r)]), Num(1)), Hundred)

\* C23: when the input has total_revenue and no revenue_growth, the preparer
\* gives every row that has an earlier period of its entity the percent change
\* of total_revenue from the preceding period.
C23_GrowthFromPrecedingPeriod ==
    (PrepareReturned /\ ~Has(df, "revenue_growth")
        /\ {"total_revenue", "symbol", "date"} \subseteq Cols(df)) =>
        \A i \in 1..NRows(cur) :
            LET r == cur.idx[i] + 1
            IN (/\ EarlierPeriods(r) # {}
                /\ NotNa(df.col["total_revenue"][r])
                /\ NotNa(df.col["total_revenue"][PrecedingPeriod(r)]))
                  => cur.col["revenue_growth"][i] = PercentChange("total_revenue", r)

\* the orders in which the caller can hand over n rows
RowOrders(n) == {p \in [1..n -> 1..n] : \A i, j \in 1..n : i # j => p[i] # p[j]}
\* the cell of column c in the row of t labelled l
CellAt(t, c, l) == t.col[c][CHOOSE i \in 1..NRows(t) : t.idx[i] = l]
\* what the first two stages make of the caller's rows handed over in order p
AccountingOf(p) == create_accounting_features(prepare_database_fields(Permute(df, p)))

\* C25: the grouped percent changes do not depend on the order of the input
\* rows: for every reordering of the caller's rows, every (entity, time) row
\* gets the revenue_growth and net_income_growth_normalized it gets now.
C25_RowOrderIrrelevant ==
    (AccountingReturned /\ {"symbol", "date"} \subseteq Cols(df)) =>
        \A p \in RowOrders(NRows(df)) :
            \A c \in {"revenue_growth", "net_income_growth_normalized"} \cap Cols(cur) :
                \A l \in Range(df.idx) :
                    CellAt(AccountingOf(p), c, l) = CellAt(cur, c, l)

-----------------------------------------------------------------------------
(* Claims about substituted defaults *)

\* the caller's table with the missing cell (f, r) observed at the default of f
ObservedAtDefault(f, r) == [df EXCEPT !.col[f][r] = defaults[f]]

\* C24: a substituted default can be told from an observed value: an input
\* with a field missing in one row and the input that has the default observed
\* there are not prepared to the same table.
C24_DefaultDistinguishable ==
    PrepareReturned =>
        \A f \in DOMAIN defaults \cap Cols(df) :
            \A r \in 1..NRows(df) :
                IsNaN(df.col[f][r]) =>
                    prepare_database_fields(ObservedAtDefault(f, r)) # cur

-----------------------------------------------------------------------------
(* create_interaction_features called on its own *)

\* tables of base features that do not yet carry an interaction column
InteractionTablesOf(n) ==
    { Build(n, [symbol |-> sy, roa |-> ro, leverage |-> le, revenue_growth |-> rg,
                equity_volatility_100d |-> ev, equity_volatility |-> eo, market_cap |-> mc]) :
        sy \in Opt(<<1, 2>>, n), ro \in Opt(<<Num(2), NaN>>, n), le \in Opt(<<Rat(1, 2)>>, n),
        rg \in Opt(<<Num(3), Num(-1)>>, n), ev \in Opt(<<Rat(1, 4)>>, n),
        eo \in Opt(<<Rat(1, 5)>>, n), mc \in Opt(<<Num(1), Num(0)>>, n) }
InteractionTables == UNION {InteractionTablesOf(n) : n \in 1..MaxRows}

InitInteraction ==
    /\ op = "create_interaction_features"
    /\ pc = "call"
    /\ df \in InteractionTables
    /\ df0 = df
    /\ cur = EmptyTable
    /\ target = EmptySeries
    /\ err = "none"
    /\ run = 1
    /\ first = NoResult
    /\ scal = <<>>
    /\ winsorize_level = DefaultLevel
    /\ rebound = FALSE
    /\ fit = NoFit

\* df_interactions = engineer.create_interaction_features(df)
InteractionFeatures ==
    /\ op = "create_interaction_features" /\ pc = "call"
    /\ cur' = create_interaction_features(df)
    /\ pc' = "done"
    /\ UNCHANGED <<op, df, df0, target, err, run, first, scal, winsorize_level, rebound, fit>>

NextInteraction == InteractionFeatures
SpecInteraction == InitInteraction /\ [][NextInteraction]_vars

InteractionReturned == op = "create_interaction_features" /\ pc = "done"
InteractionColumns ==
    {"roa_leverage_interaction", "growth_volatility_interaction", "log_market_cap"}

\* C26: the result has roa_leverage_interaction exactly when the input has roa
\* and leverage, growth_volatility_interaction exactly when it has
\* revenue_growth and equity_volatility_100d, log_market_cap exactly when it
\* has market_cap; every other column of the result is a column of the input
\* with the same cells, no input column is missing, and the rows are the same.
C26_InteractionColumnsOnly ==
    InteractionReturned =>
        /\ Has(cur, "roa_leverage_interaction") <=> (Has(df, "roa") /\ Has(df, "leverage"))
        /\ Has(cur, "growth_volatility_interaction")
              <=> (Has(df, "revenue_growth") /\ Has(df, "equity_volatility_100d"))
        /\ Has(cur, "log_market_cap") <=> Has(df, "market_cap")
        /\ Cols(cur) \ InteractionColumns = Cols(df)
        /\ \A c \in Cols(df) : cur.col[c] = df.col[c]
        /\ cur.idx = df.idx
\* a call on a table with revenue_growth and market_cap and neither
\* equity_volatility_100d nor leverage: one of the three columns is added
C26_OnlyLogMarketCapAdded ==
    /\ InteractionReturned
    /\ {"revenue_growth", "market_cap", "roa", "equity_volatility"} \subseteq Cols(df)
    /\ ~Has(df, "equity_volatility_100d") /\ ~Has(df, "leverage")
    /\ Cols(cur) = Cols(df) \cup {"log_market_cap"}

-----------------------------------------------------------------------------
(* Claims about the windows of time_series_split_validation *)

\* the test frame of a window of the log
TestFrameOf(w) == test_data(df, w.test_start, w.test_start + scal.test_years)

\* C28: in every window every train row is dated strictly before the start of
\* the test window and every test row on or after it.
C28_TrainBeforeTest ==
    SplitRunning =>
        \A j \in DOMAIN scal.windows :
            LET w == scal.windows[j]
            IN \A a \in w.train_dates, b \in w.test_dates :
                  a < w.test_start /\ w.test_start <= b
\* a fitted window with train and test rows, the last train date right before
\* the test start and a test row on the test start itself
C28_AdjacentTrainAndTest ==
    /\ SplitRunning
    /\ \E j \in DOMAIN scal.windows :
          LET w == scal.windows[j]
          IN /\ w.fitted
             /\ w.test_start - 1 \in w.train_dates
             /\ w.test_start \in w.test_dates

\* C29: in every scored window the i-th prediction and the i-th true target
\* belong to the same row of the panel.
C29_PredictionPairedWithItsRow ==
    SplitRunning =>
        \A j \in DOMAIN scal.windows :
            scal.windows[j].appended =>
                XTestIndex(TestFrameOf(scal.windows[j])) = YTestIndex(TestFrameOf(scal.windows[j]))

-----------------------------------------------------------------------------
(* Claims about missing values *)

PrepareDataReturned == op = "prepare_data_for_engineering" /\ pc = "done"

\* C27: no missing value is turned into zero: a cell that is missing in the
\* table handed to prepare_data_for_engineering is not zero in the table it
\* returns.
C27_MissingNotZero ==
    PrepareDataReturned =>
        \A c \in NumericCols(df0) \cap Cols(cur) :
            \A i \in 1..NRows(df0) :
                IsNaN(df0.col[c][i]) => ~IsZero(CellAt(cur, c, df0.idx[i]))

====
